---- MODULE Spec2Model ----
(***************************************************************************)
(* The OCR request/response pipeline of the TIFF viewer extension:         *)
(*   - the Coordinator (background service worker, src/unnamed/part_001),  *)
(*   - the Worker Host (offscreen document, src/offscreen/offscreen.js),   *)
(*   - the browser (chrome.runtime / chrome.offscreen / chrome.tabs), the  *)
(*     Tesseract engine and the viewer tabs as the environment.            *)
(*                                                                         *)
(* Each context is single-threaded: one action is one task of its event    *)
(* loop (a listener call, or the continuation of an await together with    *)
(* the microtasks it triggers).  Replies of the browser to one context and *)
(* messages between two contexts are delivered in the order they were      *)
(* produced.                                                               *)
(*                                                                         *)
(* The specifications share the state:                                     *)
(*   SpecCoord     the Coordinator with the browser; the Worker Host is    *)
(*                 seen from outside: it answers the requests that reached *)
(*                 it, in any order, or crashes;                           *)
(*   FairSpecCoord SpecCoord with the steps that are bound to happen;      *)
(*   SpecHost      the Worker Host step by step, with the engine; it gets  *)
(*                 the requests the Coordinator forwards, and its messages *)
(*                 stay in toCoord in the order they were sent;            *)
(*   SpecProgress  the Coordinator's routing of the host's messages to     *)
(*                 callbacks and viewer tabs, the document being present.  *)
(***************************************************************************)
EXTENDS Integers, Sequences, FiniteSets, TLC

\* ---------------------------------------------------------------- bounds
MaxReq == 2          \* requests the viewer tabs submit
NumTabs == 2         \* open viewer tabs
MaxProgress == 1     \* progress events the engines emit

Callers == 1..MaxReq
Tabs == 1..NumTabs
ReqTypes == {"ocr-init", "ocr-recognize", "ocr-terminate"}

VARIABLES
  \* --- viewer side (callers of chrome.runtime.sendMessage)
  reqs,                \* reqs[c]: the c-th submitted request [type, tab]
  cbLog,               \* cbLog[c]: what sendResponse of caller c was given
  tabInbox,            \* tabInbox[t]: ocr-progress messages tab t received
  \* --- Coordinator (part_001)
  ocrRequestId,        \* let ocrRequestId
  pendingOcrRequests,  \* Map requestId -> sendResponse (named by its caller)
  creatingOffscreen,   \* let creatingOffscreen: 0 (null) or a promise
  reqId,               \* reqId[c]: the requestId the handler closure of c holds
  setupPc,             \* setupPc[c]: where the async forwarding task of c is
  dispatched,          \* callers whose request was passed to sendMessage
  sendRejected,        \* callers whose sendMessage found no receiving end
  deleteCount,         \* deleteCount[id]: deletions of an existing entry id
  dropped,             \* ids of the ocr-responses that found no entry
  \* --- browser
  hostExists,          \* an offscreen document exists
  createDocs,          \* the promises chrome.offscreen.createDocument returned
  ctxCalls,            \* getContexts calls not answered yet, in call order
  replies,             \* answers of the browser on their way to the Coordinator
  toHost,              \* messages on their way to the offscreen document
  toCoord,             \* messages of the offscreen document to the Coordinator
  \* --- Worker Host (offscreen.js)
  libLoaded,           \* typeof Tesseract !== 'undefined'
  tesseractWorker,     \* let tesseractWorker: 0 (null) or an engine
  workerReady,         \* let workerReady
  selfWorker,          \* self.Worker: 0 (the original) or the patch of a task
  OriginalWorker,      \* OriginalWorker[c]: const OriginalWorker of task c
  blobUrls,            \* blob URLs created by URL.createObjectURL
  engines,             \* engines Tesseract.createWorker started
  hostPc,              \* hostPc[c]: where the host task of request c is
  taskEngine,          \* taskEngine[c]: engine task c creates / recognizes on
  taskReqId,           \* taskReqId[c]: const requestId of the listener call
  taskType,            \* taskType[c]: const type of the listener call
  emitted,             \* progress events the engines have emitted so far
  sinceTerminate,      \* a Terminate was answered and no later request
                       \* has started an initialization
  \* --- TiffViewer of one viewer tab (part_003) with its OCR sandbox frame
  pages,               \* this.pages: [rotation, ocrData] per page
  currentPage,         \* this.currentPage (0-based)
  viewMode,            \* this.viewMode
  ocrInProgress,       \* this.ocrInProgress
  ocrCancelled,        \* this.ocrCancelled
  ocrSandbox,          \* this.ocrSandbox: 0 (unset) or the number of the frame
  ocrSandboxReady,     \* this.ocrSandboxReady
  ocrMessageId,        \* this.ocrMessageId
  ocrPendingMessages,  \* this.ocrPendingMessages: id -> {resolve, reject}
                       \* of the promise a run awaits (named by the run)
  posted,              \* messages posted to the sandbox and not answered yet
  runs,                \* the calls of ocrCurrentPage / ocrAllPages
  console,             \* the last line console.log wrote about a result
  consoleAlt,          \* the same, had the recognized text been another
  \* --- the result of a recognition in the Worker Host (offscreen.js)
  engineResult,        \* <<result>>: what tesseractWorker.recognize gave last
  responseData,        \* <<data>>: the data of the response sent for it
  \* --- redirect rules of the Coordinator (part_001)
  ruleIdCounter,       \* let ruleIdCounter
  pendingRules,        \* const pendingRules: Map url -> ruleId
  dynamicRules,        \* the browser's dynamic rules: a set of [id, url]
  ruleTask,            \* the createRedirectRule calls that got a rule id:
                       \* [url, id, pc, removing], in call order
  skipped              \* URLs a createRedirectRule call returned early for

coordVars == <<ocrRequestId, pendingOcrRequests, creatingOffscreen, reqId,
               setupPc, dispatched, sendRejected, deleteCount, dropped>>
viewVars == <<reqs, cbLog, tabInbox>>
browserVars == <<hostExists, createDocs, ctxCalls, replies, toHost, toCoord>>
hostVars == <<libLoaded, tesseractWorker, workerReady, selfWorker,
              OriginalWorker, blobUrls, engines, hostPc, taskEngine, taskReqId,
              taskType, emitted,
              sinceTerminate>>
tiffVars == <<pages, currentPage, viewMode, ocrInProgress, ocrCancelled, ocrSandbox,
              ocrSandboxReady, ocrMessageId, ocrPendingMessages, posted, runs,
              console, consoleAlt>>
dataVars == <<engineResult, responseData>>
pipeVars == <<viewVars, coordVars, browserVars, hostVars>>
ruleVars == <<ruleIdCounter, pendingRules, dynamicRules, ruleTask, skipped>>
vars == <<pipeVars, tiffVars, dataVars, ruleVars>>

\* ---------------------------------------- redirect rules: initial state
MaxRules == 3        \* createRedirectRule calls that get a rule id
NumUrls == 2         \* TIFF URLs navigated to
Urls == 1..NumUrls

\* part_001:180-183: let ruleIdCounter = 1; const pendingRules = new Map();
\* no dynamic rule is installed (onStartup / onInstalled removed them all).
RulesNew ==
  /\ ruleIdCounter = 1
  /\ pendingRules = <<>>
  /\ dynamicRules = {}
  /\ ruleTask = <<>>
  /\ skipped = {}

\* ------------------------------------------------------------- helpers
Range(s) == {s[i] : i \in 1..Len(s)}

\* Map.prototype.set on a map kept as a function
MapSet(m, k, v) == [x \in (DOMAIN m) \cup {k} |-> IF x = k THEN v ELSE m[x]]

\* mutant of MapDelete: the entry is left in the map
MapDeleteNothing(m, K) == m

\* Map.prototype.delete
MapDelete(m, K) == [x \in (DOMAIN m) \ K |-> m[x]]

\* {...message, requestId} (part_001:470-473); src names the caller whose
\* request the message carries
Forwarded(c) == [type |-> reqs[c].type, requestId |-> reqId[c], src |-> c]

\* {success: false, error: err.message} of the catch block (part_001:478)
SetupFailure(c) ==
  [success |-> FALSE, error |-> "setup", requestId |-> reqId[c], src |-> 0]

\* viewer tabs are alike: they are numbered in the order of their first
\* request
FirstUse(t) == \A u \in 1..(t - 1) : \E c \in DOMAIN reqs : reqs[c].tab = u

\* ------------------------------------------------------------ initial state
\* the TiffViewer after its constructor (part_003:4-15)
TiffViewerNew ==
  /\ pages = <<>>
  /\ currentPage = 0
  /\ viewMode = "continuous"
  /\ ocrInProgress = FALSE
  /\ ocrCancelled = FALSE
  /\ ocrSandbox = 0
  /\ ocrSandboxReady = FALSE
  /\ ocrMessageId = 0
  /\ ocrPendingMessages = <<>>
  /\ posted = {}
  /\ runs = <<>>
  /\ console = <<>>
  /\ consoleAlt = <<>>

Init ==
  /\ reqs = <<>>
  /\ cbLog = [c \in Callers |-> <<>>]
  /\ tabInbox = [t \in Tabs |-> <<>>]
  /\ ocrRequestId = 0
  /\ pendingOcrRequests = <<>>
  /\ creatingOffscreen = 0
  /\ reqId = [c \in Callers |-> 0]
  /\ setupPc = [c \in Callers |-> "none"]
  /\ dispatched = {}
  /\ sendRejected = {}
  /\ deleteCount = [i \in 1..MaxReq |-> 0]
  /\ dropped = {}
  /\ hostExists = FALSE
  /\ createDocs = <<>>
  /\ ctxCalls = <<>>
  /\ replies = <<>>
  /\ toHost = <<>>
  /\ toCoord = <<>>
  /\ libLoaded = TRUE
  /\ tesseractWorker = 0
  /\ workerReady = FALSE
  /\ selfWorker = 0
  /\ OriginalWorker = [c \in Callers |-> 0]
  /\ blobUrls = 0
  /\ engines = <<>>
  /\ hostPc = [c \in Callers |-> "none"]
  /\ taskEngine = [c \in Callers |-> 0]
  /\ taskReqId = [c \in Callers |-> 0]
  /\ taskType = [c \in Callers |-> ""]
  /\ emitted = 0
  /\ sinceTerminate = FALSE
  /\ engineResult = <<>>
  /\ responseData = <<>>
  /\ RulesNew
  /\ TiffViewerNew

\* ============================================================ Coordinator

\* chrome.runtime.sendMessage({...message, requestId}) for the callers of w,
\* in order; a message sent while no offscreen document exists reaches nobody
\* and the promise sendMessage returned is rejected, which no code handles
Dispatch(w) ==
  /\ toHost' = IF hostExists
                 THEN toHost \o [i \in 1..Len(w) |-> Forwarded(w[i])]
                 ELSE toHost
  /\ dispatched' = dispatched \cup Range(w)
  /\ sendRejected' = IF hostExists THEN sendRejected
                                   ELSE sendRejected \cup Range(w)

\* mutant of FailSetup: the catch block calls the callback and leaves the
\* entry in the table
FailSetupNoDelete(w) ==
  LET hit == {c \in Range(w) : reqId[c] \in DOMAIN pendingOcrRequests}
  IN /\ cbLog' = [d \in Callers |->
                    IF \E c \in hit : pendingOcrRequests[reqId[c]] = d
                      THEN Append(cbLog[d],
                             SetupFailure(CHOOSE c \in hit :
                                            pendingOcrRequests[reqId[c]] = d))
                      ELSE cbLog[d]]
     /\ UNCHANGED <<pendingOcrRequests, deleteCount>>

\* the catch block of the forwarding task, for every caller of w
\* (part_001:474-481): get the callback, call it, delete the entry
FailSetup(w) ==
  LET hit == {c \in Range(w) : reqId[c] \in DOMAIN pendingOcrRequests}
  IN /\ cbLog' = [d \in Callers |->
                    IF \E c \in hit : pendingOcrRequests[reqId[c]] = d
                      THEN Append(cbLog[d],
                             SetupFailure(CHOOSE c \in hit :
                                            pendingOcrRequests[reqId[c]] = d))
                      ELSE cbLog[d]]
     /\ pendingOcrRequests' =
          MapDelete(pendingOcrRequests, {reqId[c] : c \in hit})
     /\ deleteCount' = [i \in DOMAIN deleteCount |->
                          IF i \in {reqId[c] : c \in hit}
                            THEN deleteCount[i] + 1 ELSE deleteCount[i]]

\* the onMessage listener for ocr-init / ocr-recognize / ocr-terminate sent
\* by viewer tab t, up to the first await of setupOffscreen
Submit(t, ty) ==
  /\ Len(reqs) < MaxReq
  /\ FirstUse(t)
  /\ LET c == Len(reqs) + 1
         requestId == ocrRequestId + 1
     IN /\ reqs' = Append(reqs, [type |-> ty, tab |-> t])
        /\ ocrRequestId' = requestId
        /\ reqId' = [reqId EXCEPT ![c] = requestId]
        /\ pendingOcrRequests' = MapSet(pendingOcrRequests, requestId, c)
        /\ setupPc' = [setupPc EXCEPT ![c] = "getContexts"]
        /\ ctxCalls' = Append(ctxCalls, c)
  /\ UNCHANGED <<cbLog, tabInbox, creatingOffscreen, dispatched, sendRejected, deleteCount,
                 dropped, hostExists, createDocs, replies, toHost, toCoord,
                 hostVars>>
  /\ UNCHANGED <<tiffVars, dataVars, ruleVars>>

\* the browser answers the oldest chrome.runtime.getContexts call
AnswerGetContexts ==
  /\ ctxCalls # <<>>
  /\ replies' = Append(replies, [k |-> "contexts", c |-> Head(ctxCalls),
                                 p |-> 0, ok |-> hostExists])
  /\ ctxCalls' = Tail(ctxCalls)
  /\ UNCHANGED <<viewVars, coordVars, hostExists, createDocs, toHost, toCoord,
                 hostVars>>
  /\ UNCHANGED <<tiffVars, dataVars, ruleVars>>

\* mutant of CreationInFlight: the handle is not looked at
CreationInFlightIgnored == FALSE

\* if (creatingOffscreen): a creation handle is set
CreationInFlight == creatingOffscreen # 0

\* mutant of DocumentExists: the Coordinator goes by what it remembers, the
\* requests it has sent on since it was started
DocumentExistsFromMemory(exists) ==
  \E c \in Callers : setupPc[c] = "done"

\* if (existingContexts.length > 0): what the browser answered
\* (part_001:439)
DocumentExists(exists) == exists

\* setupOffscreen after getContexts resolved, for caller c (part_001:439-453)
SetupAfterContexts(c, exists) ==
  IF DocumentExists(exists)
    THEN \* return; then sendMessage
      /\ Dispatch(<<c>>)
      /\ setupPc' = [setupPc EXCEPT ![c] = "done"]
      /\ UNCHANGED <<cbLog, pendingOcrRequests, deleteCount,
                     creatingOffscreen, createDocs>>
    ELSE IF CreationInFlight
      THEN \* await creatingOffscreen
        IF createDocs[creatingOffscreen].state = "pending"
          THEN /\ createDocs' = [createDocs EXCEPT ![creatingOffscreen].waiters
                                   = Append(@, c)]
               /\ setupPc' = [setupPc EXCEPT ![c] = "awaitCreating"]
               /\ UNCHANGED <<cbLog, pendingOcrRequests, deleteCount,
                              creatingOffscreen, toHost, dispatched, sendRejected>>
          ELSE IF createDocs[creatingOffscreen].state = "rejected"
            THEN /\ FailSetup(<<c>>)
                 /\ setupPc' = [setupPc EXCEPT ![c] = "failed"]
                 /\ UNCHANGED <<creatingOffscreen, createDocs, toHost,
                                dispatched, sendRejected>>
            ELSE /\ Dispatch(<<c>>)
                 /\ setupPc' = [setupPc EXCEPT ![c] = "done"]
                 /\ UNCHANGED <<cbLog, pendingOcrRequests, deleteCount,
                                creatingOffscreen, createDocs>>
      ELSE \* creatingOffscreen = chrome.offscreen.createDocument(...); await
        /\ createDocs' = Append(createDocs,
             [state |-> "pending", waiters |-> <<c>>, replied |-> FALSE,
              hostAtCall |-> hostExists,
              othersAtCall |-> Cardinality({q \in DOMAIN createDocs :
                                              ~createDocs[q].replied})])
        /\ creatingOffscreen' = Len(createDocs) + 1
        /\ setupPc' = [setupPc EXCEPT ![c] = "awaitCreating"]
        /\ UNCHANGED <<cbLog, pendingOcrRequests, deleteCount, toHost,
                       dispatched, sendRejected>>

\* the promise p of createDocument settles: the continuations of all tasks
\* awaiting it run, the creator's first (part_001:451-452, 444, 470, 474)
CreationSettled(p, ok) ==
  LET w == createDocs[p].waiters
  IN /\ createDocs' = [createDocs EXCEPT
                         ![p].state = IF ok THEN "resolved" ELSE "rejected"]
     /\ setupPc' = [c \in Callers |->
                      IF c \in Range(w) THEN (IF ok THEN "done" ELSE "failed")
                                        ELSE setupPc[c]]
     /\ IF ok
          THEN /\ creatingOffscreen' = 0
               /\ Dispatch(w)
               /\ UNCHANGED <<cbLog, pendingOcrRequests, deleteCount>>
          ELSE /\ FailSetup(w)
               /\ UNCHANGED <<creatingOffscreen, toHost, dispatched, sendRejected>>

\* the Coordinator takes the oldest answer of the browser
CoordReply ==
  /\ replies # <<>>
  /\ Head(replies).k # "tabs"
  /\ LET r == Head(replies)
     IN IF r.k = "contexts" THEN SetupAfterContexts(r.c, r.ok)
                            ELSE CreationSettled(r.p, r.ok)
  /\ replies' = Tail(replies)
  /\ UNCHANGED <<reqs, tabInbox, ocrRequestId, reqId, dropped, hostExists,
                 ctxCalls,
                 toCoord, hostVars>>
  /\ UNCHANGED <<tiffVars, dataVars, ruleVars>>

\* the browser finishes a createDocument call: the document is loaded, or the
\* call is rejected (always when a document already exists)
CreateDocumentDone(p, ok) ==
  /\ p \in DOMAIN createDocs
  /\ ~createDocs[p].replied
  /\ ok => ~hostExists
  /\ createDocs' = [createDocs EXCEPT ![p].replied = TRUE]
  /\ replies' = IF createDocs[p].waiters = <<>>
                 THEN replies    \* the instance that called is gone
                 ELSE Append(replies,
                             [k |-> "created", c |-> 0, p |-> p, ok |-> ok])
  /\ hostExists' = (hostExists \/ ok)
  /\ UNCHANGED <<viewVars, coordVars, ctxCalls, toHost, toCoord, hostVars>>
  /\ UNCHANGED <<tiffVars, dataVars, ruleVars>>

\* --------------------------------------------- messages from the host

\* mutant of LookupCallback: an id that is not found is taken for the entry
\* stored last
LookupLatest(requestId) ==
  IF requestId \in DOMAIN pendingOcrRequests
    THEN requestId
    ELSE IF DOMAIN pendingOcrRequests = {}
      THEN 0
      ELSE CHOOSE k \in DOMAIN pendingOcrRequests :
             \A j \in DOMAIN pendingOcrRequests : k >= j

\* mutant of LookupCallback: the oldest entry is taken, as if responses came
\* in the order the requests were sent
LookupOldest(requestId) ==
  IF DOMAIN pendingOcrRequests = {}
    THEN 0
    ELSE CHOOSE k \in DOMAIN pendingOcrRequests :
           \A j \in DOMAIN pendingOcrRequests : k <= j

\* pendingOcrRequests.get(requestId): the key of the entry found, 0 if none
LookupCallback(requestId) ==
  IF requestId \in DOMAIN pendingOcrRequests THEN requestId ELSE 0

\* the tabs an ocr-progress message is sent to (part_001:501-507): every tab
\* whose url is the viewer page; all tabs of the model are viewer tabs
ProgressRecipients(m) == Tabs

\* what sendResponse is called with: the message without its requestId
\* (part_001:489); requestId is kept in the log as the id the message carried
ResponseOf(m) ==
  [success |-> m.success, error |-> m.error, requestId |-> m.requestId,
   src |-> m.src]

\* the ocr-response branch of the listener (part_001:488-497)
OcrResponse(m) ==
  LET k == LookupCallback(m.requestId)
  IN IF k # 0
       THEN /\ cbLog' = [cbLog EXCEPT ![pendingOcrRequests[k]] =
                           Append(@, ResponseOf(m))]
            /\ pendingOcrRequests' = MapDelete(pendingOcrRequests,
                 {m.requestId} \cap DOMAIN pendingOcrRequests)
            /\ deleteCount' = [i \in DOMAIN deleteCount |->
                 IF i = m.requestId /\ i \in DOMAIN pendingOcrRequests
                   THEN deleteCount[i] + 1 ELSE deleteCount[i]]
            /\ UNCHANGED <<tabInbox, dropped, replies>>
       ELSE /\ dropped' = dropped \cup {m.requestId}
            /\ UNCHANGED <<cbLog, pendingOcrRequests, deleteCount, tabInbox,
                           replies>>

\* the ocr-progress branch of the listener (part_001:500-501):
\* chrome.tabs.query({}, callback) is called; the browser's answer names
\* the message by the request and the number of the event
OcrProgress(m) ==
  /\ replies' = Append(replies, [k |-> "tabs", c |-> m.src, p |-> m.n,
                                 ok |-> TRUE])
  /\ UNCHANGED <<cbLog, pendingOcrRequests, deleteCount, dropped, tabInbox>>

\* mutant of QueryAnswered: the query made last is answered first
QueryAnsweredLast(q) == q[Len(q)]

\* the callbacks of the chrome.tabs.query calls run in the order of the
\* calls: the oldest answer is taken
QueryAnswered(q) == Head(q)

\* the callback of chrome.tabs.query (part_001:501-507): the message is sent
\* to every recipient tab with chrome.tabs.sendMessage
TabsQueryDone ==
  /\ replies # <<>>
  /\ Head(replies).k = "tabs"
  /\ LET r == QueryAnswered(replies)
         m == [type |-> "ocr-progress", requestId |-> 0, success |-> FALSE,
               error |-> "", src |-> r.c, n |-> r.p]
     IN tabInbox' = [t \in Tabs |-> IF t \in ProgressRecipients(m)
                                      THEN Append(tabInbox[t], m)
                                      ELSE tabInbox[t]]
  /\ replies' = Tail(replies)
  /\ UNCHANGED <<reqs, cbLog, coordVars, hostExists, createDocs, ctxCalls,
                 toHost, toCoord, hostVars>>
  /\ UNCHANGED <<tiffVars, dataVars, ruleVars>>

\* the Coordinator's listener is called with the oldest message of the
\* offscreen document; again: the same message is delivered once more later
CoordMessage(again) ==
  /\ toCoord # <<>>
  /\ LET m == Head(toCoord)
     IN /\ IF m.type = "ocr-response" THEN OcrResponse(m) ELSE OcrProgress(m)
        /\ again => m.type = "ocr-response"
  /\ toCoord' = IF again THEN toCoord ELSE Tail(toCoord)
  /\ UNCHANGED <<reqs, ocrRequestId, creatingOffscreen, reqId, setupPc,
                 dispatched, sendRejected, hostExists, createDocs, ctxCalls,
                 toHost, hostVars>>
  /\ UNCHANGED <<tiffVars, dataVars, ruleVars>>

\* ============================================================ Worker Host

\* mutant of Respond: the promise chains of the listener have no catch
RespondSuccessOnly(c, rid, success, error) ==
  toCoord' = IF success
               THEN Append(toCoord, [type |-> "ocr-response",
                                     requestId |-> rid, success |-> success,
                                     error |-> error, src |-> c, n |-> 0])
               ELSE toCoord

\* mutant of Respond: the id of the request received last is sent, as if
\* requestId were kept in one variable of the document
RespondLatest(c, rid, success, error) ==
  toCoord' = Append(toCoord, [type |-> "ocr-response",
                              requestId |-> ocrRequestId - Len(toHost),
                              success |-> success, error |-> error,
                              src |-> c, n |-> 0])

\* respond(response) of the listener call of task c (offscreen.js:200-206)
Respond(c, rid, success, error) ==
  toCoord' = Append(toCoord, [type |-> "ocr-response", requestId |-> rid,
                              success |-> success, error |-> error,
                              src |-> c, n |-> 0])

\* mutant of AlreadyInitialized: initWorker has no early return
AlreadyInitializedNever == FALSE

\* if (tesseractWorker && workerReady) return;   (offscreen.js:99)
AlreadyInitialized == tesseractWorker # 0 /\ workerReady

\* if (!tesseractWorker || !workerReady)         (offscreen.js:151)
NeedsInit == tesseractWorker = 0 \/ ~workerReady

\* recognize() from the timeout wrapper to the await of Promise.race
\* (offscreen.js:155-166), on the engine e that tesseractWorker names then
StartRecognize(c, e) ==
  /\ hostPc' = [hostPc EXCEPT ![c] = "recog"]
  /\ taskEngine' = [taskEngine EXCEPT ![c] = e]

\* initWorker() behind its guard, up to the await of the two fetches
\* (offscreen.js:103-109, 59-62); without the library it throws
InitWorkerStart(c, rid) ==
  IF libLoaded
    THEN /\ hostPc' = [hostPc EXCEPT ![c] = "fetch"]
         /\ sinceTerminate' = FALSE
         /\ UNCHANGED toCoord
    ELSE /\ hostPc' = [hostPc EXCEPT ![c] = "done"]
         /\ Respond(c, rid, FALSE, "init")
         /\ UNCHANGED sinceTerminate

\* mutant of Terminate: workerReady is not reset
TerminateKeepsReady(c, rid) ==
  /\ IF tesseractWorker # 0
       THEN /\ engines' = [engines EXCEPT ![tesseractWorker].alive = FALSE]
            /\ tesseractWorker' = 0
            /\ UNCHANGED workerReady
       ELSE UNCHANGED <<engines, tesseractWorker, workerReady>>
  /\ Respond(c, rid, TRUE, "")
  /\ hostPc' = [hostPc EXCEPT ![c] = "done"]
  /\ sinceTerminate' = TRUE
  /\ UNCHANGED taskEngine

\* the ocr-terminate branch (offscreen.js:222-230)
Terminate(c, rid) ==
  /\ IF tesseractWorker # 0
       THEN /\ engines' = [engines EXCEPT ![tesseractWorker].alive = FALSE]
            /\ tesseractWorker' = 0
            /\ workerReady' = FALSE
       ELSE UNCHANGED <<engines, tesseractWorker, workerReady>>
  /\ Respond(c, rid, TRUE, "")
  /\ hostPc' = [hostPc EXCEPT ![c] = "done"]
  /\ sinceTerminate' = TRUE
  /\ UNCHANGED taskEngine

\* the host's onMessage listener is called with the oldest forwarded request
\* (offscreen.js:195-231)
HostReceive ==
  /\ hostExists
  /\ toHost # <<>>
  /\ LET m == Head(toHost)
         c == m.src
     IN /\ taskReqId' = [taskReqId EXCEPT ![c] = m.requestId]
        /\ taskType' = [taskType EXCEPT ![c] = m.type]
        /\ CASE m.type = "ocr-init" ->
                  /\ IF AlreadyInitialized
                       THEN /\ Respond(c, m.requestId, TRUE, "")
                            /\ hostPc' = [hostPc EXCEPT ![c] = "done"]
                            /\ UNCHANGED sinceTerminate
                       ELSE InitWorkerStart(c, m.requestId)
                  /\ UNCHANGED <<engines, tesseractWorker, workerReady,
                                 taskEngine>>
             [] m.type = "ocr-recognize" ->
                  /\ IF NeedsInit
                       THEN IF AlreadyInitialized
                              THEN /\ StartRecognize(c, tesseractWorker)
                                   /\ UNCHANGED <<toCoord, sinceTerminate>>
                              ELSE /\ InitWorkerStart(c, m.requestId)
                                   /\ UNCHANGED taskEngine
                       ELSE /\ StartRecognize(c, tesseractWorker)
                            /\ UNCHANGED <<toCoord, sinceTerminate>>
                  /\ UNCHANGED <<engines, tesseractWorker, workerReady>>
             [] OTHER -> Terminate(c, m.requestId)
  /\ toHost' = Tail(toHost)
  /\ UNCHANGED <<viewVars, coordVars, hostExists, createDocs, ctxCalls,
                 replies, libLoaded, selfWorker, OriginalWorker,
                 blobUrls, emitted>>
  /\ UNCHANGED <<tiffVars, dataVars, ruleVars>>

\* mutant of PromiseAll: one script is enough to go on
PromiseAny(a, b) == a \/ b

\* await Promise.all([a, b]) goes on when both promises are fulfilled and
\* throws when one is rejected (offscreen.js:59-62)
PromiseAll(a, b) == a /\ b

\* the two fetches of createInlinedWorkerBlob settle (offscreen.js:59-62):
\* okWorker for tesseract-worker.min.js, okCore for
\* tesseract-core-simd.wasm.js;
\* then the blob URL is made, self.Worker is replaced and
\* Tesseract.createWorker is called, which starts an engine through the
\* replaced constructor (offscreen.js:78-79, 113-121)
FetchDone(c, okWorker, okCore) ==
  /\ hostPc[c] = "fetch"
  /\ IF PromiseAll(okWorker, okCore)
       THEN /\ blobUrls' = blobUrls + 1
            /\ OriginalWorker' = [OriginalWorker EXCEPT ![c] = selfWorker]
            /\ selfWorker' = c
            /\ engines' = Append(engines, [alive |-> TRUE, by |-> c,
                                           made |-> FALSE])
            /\ taskEngine' = [taskEngine EXCEPT ![c] = Len(engines) + 1]
            /\ hostPc' = [hostPc EXCEPT ![c] = "create"]
            /\ UNCHANGED toCoord
       ELSE /\ Respond(c, taskReqId[c], FALSE, "fetch")
            /\ hostPc' = [hostPc EXCEPT ![c] = "done"]
            /\ UNCHANGED <<blobUrls, OriginalWorker, selfWorker, engines,
                           taskEngine>>
  /\ UNCHANGED <<viewVars, coordVars, hostExists, createDocs, ctxCalls,
                 replies, toHost, libLoaded, tesseractWorker,
                 workerReady, taskReqId, taskType, emitted, sinceTerminate>>
  /\ UNCHANGED <<tiffVars, dataVars, ruleVars>>

\* mutant of AfterFailedCreate: the variable names the engine that failed
AfterFailedCreateDangling(c) == taskEngine[c]

\* tesseractWorker = await Tesseract.createWorker(...) when the await throws:
\* nothing is assigned (offscreen.js:121)
AfterFailedCreate(c) == tesseractWorker

\* Tesseract.createWorker settles for task c (offscreen.js:121-145); then the
\* caller goes on: respond for ocr-init, recognize for ocr-recognize
CreateWorkerDone(c, ok) ==
  /\ hostPc[c] = "create"
  /\ IF ok
       THEN /\ engines[taskEngine[c]].alive
            /\ tesseractWorker' = taskEngine[c]
            /\ engines' = [engines EXCEPT ![taskEngine[c]].made = TRUE]
            /\ selfWorker' = OriginalWorker[c]
            /\ workerReady' = TRUE
            /\ IF taskType[c] = "ocr-init"
                 THEN /\ Respond(c, taskReqId[c], TRUE, "")
                      /\ hostPc' = [hostPc EXCEPT ![c] = "done"]
                      /\ UNCHANGED taskEngine
                 ELSE /\ StartRecognize(c, taskEngine[c])
                      /\ UNCHANGED toCoord
       ELSE /\ engines' = [engines EXCEPT ![taskEngine[c]].alive = FALSE]
            /\ Respond(c, taskReqId[c], FALSE, "create")
            /\ hostPc' = [hostPc EXCEPT ![c] = "done"]
            /\ tesseractWorker' = AfterFailedCreate(c)
            /\ UNCHANGED <<selfWorker, workerReady, taskEngine>>
  /\ UNCHANGED <<viewVars, coordVars, hostExists, createDocs, ctxCalls,
                 replies, toHost, libLoaded, OriginalWorker,
                 blobUrls, taskReqId, taskType, emitted, sinceTerminate>>
  /\ UNCHANGED <<tiffVars, dataVars, ruleVars>>

\* mutant of RecognizeDone: a failed recognition drops the engine
RecognizeDoneDropsEngine(c, outcome) ==
  /\ hostPc[c] = "recog"
  /\ outcome = "ok" => engines[taskEngine[c]].alive
  /\ Respond(c, taskReqId[c], outcome = "ok",
             IF outcome = "ok" THEN "" ELSE outcome)
  /\ hostPc' = [hostPc EXCEPT ![c] = "done"]
  /\ tesseractWorker' = IF outcome = "ok" THEN tesseractWorker ELSE 0
  /\ workerReady' = IF outcome = "ok" THEN workerReady ELSE FALSE
  /\ UNCHANGED <<viewVars, coordVars, hostExists, createDocs, ctxCalls,
                 replies, toHost, libLoaded,
                 selfWorker, OriginalWorker, blobUrls, engines,
                 taskEngine, taskReqId, taskType, emitted, sinceTerminate>>
  /\ UNCHANGED <<tiffVars, dataVars, ruleVars>>

\* mutant of RecognizeDone: no timer takes part in the race
RecognizeDoneNoTimer(c, outcome) ==
  /\ hostPc[c] = "recog"
  /\ outcome # "timeout"
  /\ outcome = "ok" => engines[taskEngine[c]].alive
  /\ Respond(c, taskReqId[c], outcome = "ok",
             IF outcome = "ok" THEN "" ELSE outcome)
  /\ hostPc' = [hostPc EXCEPT ![c] = "done"]
  /\ UNCHANGED <<viewVars, coordVars, hostExists, createDocs, ctxCalls,
                 replies, toHost, libLoaded, tesseractWorker,
                 workerReady, selfWorker, OriginalWorker, blobUrls, engines,
                 taskEngine, taskReqId, taskType, emitted, sinceTerminate>>
  /\ UNCHANGED <<tiffVars, dataVars, ruleVars>>

\* Promise.race settles for task c (offscreen.js:163-185): the engine
\* answers, fails, or the 180000 ms timer fires first; a terminated engine
\* gives no result
RecognizeDone(c, outcome) ==
  /\ hostPc[c] = "recog"
  /\ outcome = "ok" => engines[taskEngine[c]].alive
  /\ Respond(c, taskReqId[c], outcome = "ok",
             IF outcome = "ok" THEN "" ELSE outcome)
  /\ hostPc' = [hostPc EXCEPT ![c] = "done"]
  /\ UNCHANGED <<viewVars, coordVars, hostExists, createDocs, ctxCalls,
                 replies, toHost, libLoaded, tesseractWorker,
                 workerReady, selfWorker, OriginalWorker, blobUrls, engines,
                 taskEngine, taskReqId, taskType, emitted, sinceTerminate>>
  /\ UNCHANGED <<tiffVars, dataVars, ruleVars>>

\* the logger callback given to createWorker (offscreen.js:125-132): the
\* engine reports progress of the job of task c
Progress(c) ==
  /\ hostPc[c] \in {"create", "recog"}
  /\ engines[taskEngine[c]].alive
  /\ emitted < MaxProgress
  /\ emitted' = emitted + 1
  /\ toCoord' = Append(toCoord, [type |-> "ocr-progress", requestId |-> 0,
                                 success |-> FALSE, error |-> "",
                                 src |-> c, n |-> emitted + 1])
  /\ UNCHANGED <<viewVars, coordVars, hostExists, createDocs, ctxCalls,
                 replies, toHost, libLoaded, tesseractWorker,
                 workerReady, selfWorker, OriginalWorker, blobUrls, engines,
                 hostPc, taskEngine, taskReqId, taskType, sinceTerminate>>
  /\ UNCHANGED <<tiffVars, dataVars, ruleVars>>

\* the offscreen document crashes or is closed by the browser: its state,
\* its tasks, its engines and the messages on their way to it are gone
HostCrash ==
  /\ hostExists
  /\ hostExists' = FALSE
  /\ toHost' = <<>>
  /\ tesseractWorker' = 0
  /\ workerReady' = FALSE
  /\ selfWorker' = 0
  /\ sinceTerminate' = FALSE
  /\ engines' = [e \in DOMAIN engines |-> [engines[e] EXCEPT !.alive = FALSE]]
  /\ hostPc' = [c \in Callers |->
                  IF hostPc[c] \in {"fetch", "create", "recog"}
                    THEN "lost" ELSE hostPc[c]]
  /\ UNCHANGED <<viewVars, coordVars, createDocs, ctxCalls, replies, toCoord,
                 libLoaded, OriginalWorker, blobUrls, taskEngine, taskReqId,
                 taskType,
                 emitted>>
  /\ UNCHANGED <<tiffVars, dataVars, ruleVars>>

\* the Worker Host as the Coordinator sees it: a request that reached the
\* document is answered with one ocr-response carrying the request's id
\* (offscreen.js:200-206, 208-229); requests are answered in any order
HostAnswer(i, success) ==
  /\ hostExists
  /\ i \in DOMAIN toHost
  /\ toCoord' = Append(toCoord,
       [type |-> "ocr-response", requestId |-> toHost[i].requestId,
        success |-> success, error |-> IF success THEN "" ELSE "host",
        src |-> toHost[i].src, n |-> 0])
  /\ toHost' = [j \in 1..(Len(toHost) - 1) |->
                  IF j < i THEN toHost[j] ELSE toHost[j + 1]]
  /\ UNCHANGED <<viewVars, coordVars, hostExists, createDocs, ctxCalls,
                 replies, hostVars>>
  /\ UNCHANGED <<tiffVars, dataVars, ruleVars>>

\* the engine reports progress while the document works on a request that
\* reached it (offscreen.js:125-132)
HostProgressUpTo(i, max) ==
  /\ hostExists
  /\ i \in DOMAIN toHost
  /\ emitted < max
  /\ emitted' = emitted + 1
  /\ toCoord' = Append(toCoord, [type |-> "ocr-progress", requestId |-> 0,
                                 success |-> FALSE, error |-> "",
                                 src |-> toHost[i].src, n |-> emitted + 1])
  /\ UNCHANGED <<viewVars, coordVars, hostExists, createDocs, ctxCalls,
                 replies, toHost, libLoaded, tesseractWorker,
                 workerReady, selfWorker, OriginalWorker, blobUrls, engines,
                 hostPc, taskEngine, taskReqId, taskType, sinceTerminate>>
  /\ UNCHANGED <<tiffVars, dataVars, ruleVars>>

\* the progress events of the specifications that look at the routing
HostProgress(i) == HostProgressUpTo(i, MaxProgress)

\* a request of viewer tab t passes the Coordinator while the offscreen
\* document exists: the listener stores the callback, setupOffscreen returns
\* at once and the request is sent on (part_001:459-473, 439-441)
SubmitPresent(t, ty) ==
  /\ hostExists
  /\ Len(reqs) < MaxReq
  /\ FirstUse(t)
  /\ LET c == Len(reqs) + 1
         requestId == ocrRequestId + 1
     IN /\ reqs' = Append(reqs, [type |-> ty, tab |-> t])
        /\ ocrRequestId' = requestId
        /\ reqId' = [reqId EXCEPT ![c] = requestId]
        /\ pendingOcrRequests' = MapSet(pendingOcrRequests, requestId, c)
        /\ setupPc' = [setupPc EXCEPT ![c] = "done"]
        /\ dispatched' = dispatched \cup {c}
        /\ UNCHANGED sendRejected
        /\ toHost' = Append(toHost, [type |-> ty, requestId |-> requestId,
                                     src |-> c])
  /\ UNCHANGED <<cbLog, tabInbox, creatingOffscreen, deleteCount, dropped,
                 hostExists, createDocs, ctxCalls, replies, toCoord, hostVars>>
  /\ UNCHANGED <<tiffVars, dataVars, ruleVars>>

\* a request passes the Coordinator while the offscreen document exists: it
\* gets the next requestId and is sent on (part_001:460, 470-473)
Forward(ty) ==
  /\ hostExists
  /\ ocrRequestId < MaxReq
  /\ ocrRequestId' = ocrRequestId + 1
  /\ toHost' = Append(toHost, [type |-> ty, requestId |-> ocrRequestId + 1,
                               src |-> ocrRequestId + 1])
  /\ UNCHANGED <<viewVars, pendingOcrRequests, creatingOffscreen, reqId,
                 setupPc, dispatched, sendRejected, deleteCount, dropped, hostExists,
                 createDocs,
                 ctxCalls, replies, toCoord, hostVars>>
  /\ UNCHANGED <<tiffVars, dataVars, ruleVars>>

\* ============================================================ specifications

\* the Coordinator and the browser
NextCoord ==
  \/ \E t \in Tabs, ty \in ReqTypes : Submit(t, ty)
  \/ AnswerGetContexts
  \/ CoordReply
  \/ \E p \in DOMAIN createDocs, ok \in BOOLEAN : CreateDocumentDone(p, ok)
  \/ \E again \in BOOLEAN : CoordMessage(again)
  \/ \E i \in DOMAIN toHost, ok \in BOOLEAN : HostAnswer(i, ok)
  \/ HostCrash

SpecCoord == Init /\ [][NextCoord]_vars

\* what the browser, the Coordinator's event loop and a living offscreen
\* document do sooner or later; submitting, crashing and delivering a
\* message twice are not bound to happen
FairCoord ==
  /\ WF_vars(AnswerGetContexts)
  /\ WF_vars(CoordReply)
  /\ WF_vars(\E p \in DOMAIN createDocs, ok \in BOOLEAN :
               CreateDocumentDone(p, ok))
  /\ WF_vars(CoordMessage(FALSE))
  /\ WF_vars(\E i \in DOMAIN toHost, ok \in BOOLEAN : HostAnswer(i, ok))

FairSpecCoord == SpecCoord /\ FairCoord

\* the Worker Host, in a loaded offscreen document
InitHost ==
  /\ reqs = <<>>
  /\ cbLog = [c \in Callers |-> <<>>]
  /\ tabInbox = [t \in Tabs |-> <<>>]
  /\ ocrRequestId = 0
  /\ pendingOcrRequests = <<>>
  /\ creatingOffscreen = 0
  /\ reqId = [c \in Callers |-> 0]
  /\ setupPc = [c \in Callers |-> "none"]
  /\ dispatched = {}
  /\ sendRejected = {}
  /\ deleteCount = [i \in 1..MaxReq |-> 0]
  /\ dropped = {}
  /\ hostExists = TRUE
  /\ createDocs = <<>>
  /\ ctxCalls = <<>>
  /\ replies = <<>>
  /\ toHost = <<>>
  /\ toCoord = <<>>
  /\ libLoaded \in BOOLEAN
  /\ tesseractWorker = 0
  /\ workerReady = FALSE
  /\ selfWorker = 0
  /\ OriginalWorker = [c \in Callers |-> 0]
  /\ blobUrls = 0
  /\ engines = <<>>
  /\ hostPc = [c \in Callers |-> "none"]
  /\ taskEngine = [c \in Callers |-> 0]
  /\ taskReqId = [c \in Callers |-> 0]
  /\ taskType = [c \in Callers |-> ""]
  /\ emitted = 0
  /\ sinceTerminate = FALSE
  /\ engineResult = <<>>
  /\ responseData = <<>>
  /\ RulesNew
  /\ TiffViewerNew

NextHost ==
  \/ \E ty \in ReqTypes : Forward(ty)
  \/ HostReceive
  \/ \E c \in Callers, w \in BOOLEAN, k \in BOOLEAN : FetchDone(c, w, k)
  \/ \E c \in Callers, ok \in BOOLEAN : CreateWorkerDone(c, ok)
  \/ \E c \in Callers, o \in {"ok", "error", "timeout"} : RecognizeDone(c, o)
  \/ \E c \in Callers : Progress(c)

SpecHost == InitHost /\ [][NextHost]_vars

\* the routing of the host's messages in the Coordinator, with the
\* offscreen document present
NextProgress ==
  \/ \E t \in Tabs, ty \in ReqTypes : SubmitPresent(t, ty)
  \/ \E i \in DOMAIN toHost, ok \in BOOLEAN : HostAnswer(i, ok)
  \/ \E i \in DOMAIN toHost : HostProgress(i)
  \/ CoordMessage(FALSE)
  \/ TabsQueryDone

SpecProgress == InitHost /\ [][NextProgress]_vars

MaxEvents == 2       \* progress events of one recognition

\* the engine reports the progress of the recognitions that the viewer tabs
\* asked for, several times, and the Coordinator passes the events on
NextFanOut ==
  \/ \E t \in Tabs : SubmitPresent(t, "ocr-recognize")
  \/ \E i \in DOMAIN toHost : HostProgressUpTo(i, MaxEvents)
  \/ CoordMessage(FALSE)
  \/ TabsQueryDone

SpecFanOut == InitHost /\ [][NextFanOut]_vars

\* the whole path of a request while the offscreen document lives: through
\* the Coordinator to the Worker Host and back to the callback; all requests
\* come from one viewer tab
NextPipe ==
  \/ \E ty \in ReqTypes : SubmitPresent(1, ty)
  \/ HostReceive
  \/ \E c \in Callers, w \in BOOLEAN, k \in BOOLEAN : FetchDone(c, w, k)
  \/ \E c \in Callers, ok \in BOOLEAN : CreateWorkerDone(c, ok)
  \/ \E c \in Callers, o \in {"ok", "error", "timeout"} : RecognizeDone(c, o)
  \/ CoordMessage(FALSE)

\* messages are delivered, fetches and createWorker settle, and the timer of
\* setTimeout fires; the engine need not ever answer a recognize call
FairPipe ==
  /\ WF_vars(HostReceive)
  /\ WF_vars(\E c \in Callers, w \in BOOLEAN, k \in BOOLEAN : FetchDone(c, w, k))
  /\ WF_vars(\E c \in Callers, ok \in BOOLEAN : CreateWorkerDone(c, ok))
  /\ \A c \in Callers : WF_vars(RecognizeDone(c, "timeout"))
  /\ WF_vars(CoordMessage(FALSE))

SpecPipe == InitHost /\ [][NextPipe]_vars /\ FairPipe

\* the browser stops the service worker and starts it anew for the next
\* event: the module's variables are set up again (part_001:421-427), the
\* tasks of the old instance and the answers on their way to it are gone,
\* their callbacks are never called; the offscreen document, the messages
\* between it and the Coordinator and the createDocument calls the browser
\* works on are not touched.  An instance that has taken no request has
\* nothing to lose.
CoordRestart ==
  /\ ocrRequestId > 0
  /\ ocrRequestId' = 0
  /\ pendingOcrRequests' = <<>>
  /\ creatingOffscreen' = 0
  /\ setupPc' = [c \in Callers |->
                   IF setupPc[c] \in {"getContexts", "awaitCreating"}
                     THEN "lost" ELSE IF setupPc[c] = "done" THEN "old"
                                                             ELSE setupPc[c]]
  /\ ctxCalls' = <<>>
  /\ replies' = <<>>
  /\ createDocs' = [q \in DOMAIN createDocs |->
                      [createDocs[q] EXCEPT !.waiters = <<>>]]
  /\ UNCHANGED <<viewVars, reqId, dispatched, sendRejected, deleteCount,
                 dropped, hostExists, toHost, toCoord, hostVars>>
  /\ UNCHANGED <<tiffVars, dataVars, ruleVars>>

\* the Coordinator of one viewer tab, restarted by the browser now and then,
\* with an offscreen document that does not crash
NextRestart ==
  \/ \E ty \in ReqTypes : Submit(1, ty)
  \/ AnswerGetContexts
  \/ CoordReply
  \/ \E p \in DOMAIN createDocs, ok \in BOOLEAN : CreateDocumentDone(p, ok)
  \/ CoordMessage(FALSE)
  \/ \E i \in DOMAIN toHost, ok \in BOOLEAN : HostAnswer(i, ok)
  \/ CoordRestart

SpecRestart == Init /\ [][NextRestart]_vars

\* ----------------------------------------- who sent a message (sender.url)
\* A URL is the sequence of its parts; includes('offscreen') finds the word
\* wherever it stands.

\* chrome.runtime.getURL('offscreen/offscreen.html')
OffscreenUrl == <<"chrome-extension://id/", "offscreen", "/", "offscreen",
                  ".html">>

\* the viewer page showing the TIFF file of the given name:
\* `${VIEWER_URL}?url=${encodeURIComponent(url)}`     (part_001:171, 198)
ViewerUrl(name) ==
  <<"chrome-extension://id/", "viewer/viewer.html", "?url=",
    "https://host/"  >> \o name

\* the contexts other than the offscreen document that can call
\* chrome.runtime.sendMessage: viewer pages, and a sender without url
OtherSenders ==
  {ViewerUrl(<<"scan", ".tif">>), ViewerUrl(<<"offscreen", ".tif">>), <<>>}

\* String.prototype.includes for one word; undefined?.includes(...) is
\* undefined, which counts as false
Includes(url, word) == \E i \in DOMAIN url : url[i] = word

\* sender.url?.includes('offscreen')                 (part_001:488, 500)
FromOffscreen(url) == Includes(url, "offscreen")

\* the Coordinator's listener is called with a message that another context
\* than the offscreen document sent: an ocr-response for request id, or an
\* ocr-progress (part_001:487-508); a message that fails the test of the
\* sender falls through the listener
ForeignMessage(url, type, id) ==
  /\ url \in OtherSenders
  /\ type = "ocr-progress" => Len(replies) + Len(tabInbox[1]) < MaxProgress
  /\ LET m == [type |-> type, requestId |-> id, success |-> TRUE,
               error |-> "", src |-> 0, n |-> 0]
     IN IF FromOffscreen(url)
          THEN IF type = "ocr-response" THEN OcrResponse(m)
                                        ELSE OcrProgress(m)
          ELSE UNCHANGED <<cbLog, pendingOcrRequests, deleteCount, dropped,
                           tabInbox, replies>>
  /\ UNCHANGED <<reqs, ocrRequestId, creatingOffscreen, reqId, setupPc,
                 dispatched, sendRejected, hostExists, createDocs, ctxCalls,
                 toHost, toCoord, hostVars>>
  /\ UNCHANGED <<tiffVars, dataVars, ruleVars>>

\* the Coordinator with the offscreen document present, and other contexts
\* of the browser that send it messages of the document's kinds
NextSender ==
  \/ \E t \in Tabs, ty \in ReqTypes : SubmitPresent(t, ty)
  \/ \E i \in DOMAIN toHost, ok \in BOOLEAN : HostAnswer(i, ok)
  \/ CoordMessage(FALSE)
  \/ TabsQueryDone
  \/ \E url \in OtherSenders, id \in 0..MaxReq :
       ForeignMessage(url, "ocr-response", id)
  \/ \E url \in OtherSenders : ForeignMessage(url, "ocr-progress", 0)

SpecSender == InitHost /\ [][NextSender]_vars

\* ------------------------------------------ the result of a recognition

MaxWords == 2        \* words the engine finds on a page

\* bbox: null
Null == <<>>

\* the bounding boxes the engine gives
Boxes == {[x0 |-> 0, y0 |-> 0, x1 |-> 1, y1 |-> 1],
          [x0 |-> 1, y0 |-> 0, x1 |-> 2, y1 |-> 1]}

\* the words of the engine's result: text, confidence, most of the time a
\* bbox, and more that the engine reports about a word
NativeWords ==
  {[text |-> t, confidence |-> 90, bbox |-> b, choices |-> <<>>,
    baseline |-> 0] : t \in {"a", "b"}, b \in Boxes}
  \cup {[text |-> t, confidence |-> 90, choices |-> <<>>, baseline |-> 0] :
          t \in {"a", "b"}}

\* result.data of the engine: text, confidence, words or no words at all,
\* and the other renderings of the page
NativeData ==
  {[text |-> t, confidence |-> k, words |-> w, hocr |-> "hocr",
    blocks |-> <<>>] :
     t \in {"", "ab"}, k \in {0, 90},
     w \in UNION {[1..n -> NativeWords] : n \in 0..MaxWords}}
  \cup {[text |-> t, confidence |-> k, hocr |-> "hocr", blocks |-> <<>>] :
          t \in {"", "ab"}, k \in {0, 90}}

\* what tesseractWorker.recognize resolves with
NativeResults == {[data |-> d, jobId |-> "job"] : d \in NativeData}

\* the callback of data.words.map (offscreen.js:176-180)
SerializableWord(w) ==
  [text |-> w.text,
   confidence |-> w.confidence,
   bbox |-> IF "bbox" \in DOMAIN w
              THEN [x0 |-> w.bbox.x0, y0 |-> w.bbox.y0,
                    x1 |-> w.bbox.x1, y1 |-> w.bbox.y1]
              ELSE Null]

\* mutant of Serializable: return result.data, as recognize did in the
\* earlier version of the document (part_000:92-101)
WholeData(result) == result.data

\* what recognize returns for the engine's result (offscreen.js:170-181)
Serializable(result) ==
  LET data == result.data
  IN [text |-> data.text,
      confidence |-> data.confidence,
      words |-> IF "words" \in DOMAIN data
                  THEN [i \in 1..Len(data.words) |->
                          SerializableWord(data.words[i])]
                  ELSE <<>>]

\* the engine call of a recognition resolves with result; recognize returns
\* and the listener sends respond({success: true, data})
\* (offscreen.js:163-181, 216-217)
RecognizeResolved(result) ==
  /\ engineResult' = <<result>>
  /\ responseData' = <<Serializable(result)>>
  /\ UNCHANGED <<pipeVars, tiffVars, ruleVars>>

\* the engine call is rejected or the timer fires first: the response is
\* {success: false, error} and has no data (offscreen.js:182-185, 218)
RecognizeRejected ==
  /\ engineResult' = <<>>
  /\ responseData' = <<>>
  /\ UNCHANGED <<pipeVars, tiffVars, ruleVars>>

\* the recognitions of a Worker Host whose engine is ready, one after the
\* other
NextData ==
  \/ \E result \in NativeResults : RecognizeResolved(result)
  \/ RecognizeRejected

SpecData == InitHost /\ [][NextData]_vars

\* ================================================================ TiffViewer
\* One viewer tab (part_003): its pages, its OCR runs and the sandbox frame
\* that answers its requests.

MaxPages == 2        \* pages of the loaded document
MaxRuns == 2         \* OCR runs the user starts

\* recognized texts: none, or some characters
Texts == {<<>>, <<"a">>}

\* the text of a document whose pages all hold the same text
PageText == <<"a">>

\* result.text.substring(0, 100)                      (part_003:955)
PreviewLen == 100

\* stands for NaN, which parseInt gives for a text that is no number
\* (part_003:67-69); every comparison with it is false
NotANumber == -999

\* the page rotate() and ocrCurrentPage() work on: this.pages[currentPage];
\* 0 when there is no such page (undefined)
PageAt(v) ==
  IF v.currentPage # NotANumber /\ v.currentPage >= 0
       /\ v.currentPage < Len(v.pages)
    THEN v.currentPage + 1
    ELSE 0

\* page.ocrData === null
NoData == [by |-> 0, text |-> <<>>]

\* const textPreview = result.text ? result.text.substring(0, 100)
\*                                 : '(no text)';     (part_003:955)
Preview(text) ==
  IF text = <<>>
    THEN <<"(no text)">>
    ELSE SubSeq(text, 1, IF Len(text) < PreviewLen THEN Len(text)
                                                   ELSE PreviewLen)

\* the viewer's state as one value, for the code that runs within one task
Viewer ==
  [pages |-> pages, currentPage |-> currentPage, viewMode |-> viewMode,
   ocrInProgress |-> ocrInProgress, ocrCancelled |-> ocrCancelled,
   ocrSandbox |-> ocrSandbox, ocrSandboxReady |-> ocrSandboxReady,
   ocrMessageId |-> ocrMessageId, ocrPendingMessages |-> ocrPendingMessages,
   posted |-> posted, runs |-> runs, console |-> console,
   consoleAlt |-> consoleAlt]

\* the task ends in state v
Becomes(v) ==
  /\ pages' = v.pages
  /\ currentPage' = v.currentPage
  /\ viewMode' = v.viewMode
  /\ ocrInProgress' = v.ocrInProgress
  /\ ocrCancelled' = v.ocrCancelled
  /\ ocrSandbox' = v.ocrSandbox
  /\ ocrSandboxReady' = v.ocrSandboxReady
  /\ ocrMessageId' = v.ocrMessageId
  /\ ocrPendingMessages' = v.ocrPendingMessages
  /\ posted' = v.posted
  /\ runs' = v.runs
  /\ console' = v.console
  /\ consoleAlt' = v.consoleAlt
  /\ UNCHANGED <<pipeVars, dataVars, ruleVars>>

\* sendToSandbox(type, data) called by run r for page i, up to the await of
\* its promise (part_003:792-811)
sendToSandbox(v, r, type, i) ==
  LET id == v.ocrMessageId + 1
  IN [v EXCEPT !.ocrMessageId = id,
               !.ocrPendingMessages = MapSet(@, id, r),
               !.posted = @ \cup {[type |-> type, id |-> id]},
               !.runs[r].pc = IF type = "ocr-init" THEN "init" ELSE "page",
               !.runs[r].id = id,
               !.runs[r].i = i]

\* mutant of EndRun: no failure message is shown
EndRunSilent(v, r, hide, failed) ==
  [v EXCEPT !.runs[r].pc = "done",
            !.runs[r].id = 0,
            !.runs[r].i = 0,
            !.ocrInProgress = IF hide THEN FALSE ELSE @]

\* mutant of EndRun: the overlay is left as it is
EndRunKeepsOverlay(v, r, hide, failed) ==
  [v EXCEPT !.runs[r].pc = "done",
            !.runs[r].id = 0,
            !.runs[r].i = 0,
            !.runs[r].alerts = IF failed THEN @ + 1 ELSE @]

\* run r ends: hideOcrOverlay() if hide, and after a failure the catch
\* block with its alert (part_003:881-886, 910-915)
EndRun(v, r, hide, failed) ==
  [v EXCEPT !.runs[r].pc = "done",
            !.runs[r].id = 0,
            !.runs[r].i = 0,
            !.ocrInProgress = IF hide THEN FALSE ELSE @,
            !.runs[r].alerts = IF failed THEN @ + 1 ELSE @]

\* the loop of ocrAllPages from index i to its next await; pages that have
\* ocrData are skipped by ocrPage at once (part_003:901-910, 923-927)
RECURSIVE ocrAllPagesFrom(_, _, _)
ocrAllPagesFrom(v, r, i) ==
  IF i >= Len(v.pages) \/ v.ocrCancelled
    THEN EndRun(v, r, TRUE, FALSE)
    ELSE IF v.pages[i + 1].ocrData # NoData
      THEN ocrAllPagesFrom(v, r, i + 1)
      ELSE sendToSandbox(v, r, "ocr-recognize", i)

\* ocrCurrentPage after initOcr (part_003:874-881); without a page at
\* currentPage the access to page.ocrData throws
ocrCurrentPageAfterInit(v, r) ==
  IF v.ocrCancelled
    THEN EndRun(v, r, FALSE, FALSE)
    ELSE IF PageAt(v) = 0
      THEN EndRun(v, r, TRUE, TRUE)
      ELSE IF v.pages[PageAt(v)].ocrData # NoData
        THEN EndRun(v, r, TRUE, FALSE)
        ELSE sendToSandbox(v, r, "ocr-recognize", v.currentPage)

\* ocrPage after the result of page i came (part_003:939-956), then the
\* caller's next step
ocrPageResult(v, r, i, text, alt) ==
  LET w == IF v.ocrCancelled
             THEN v
             ELSE [v EXCEPT
                     !.pages[i + 1].ocrData = [by |-> r, text |-> text],
                     !.runs[r].stored = @ + 1,
                     !.console = <<"ocrPage", Preview(text)>>,
                     !.consoleAlt = <<"ocrPage", Preview(alt)>>]
  IN IF w.runs[r].kind = "current"
       THEN EndRun(w, r, TRUE, FALSE)
       ELSE ocrAllPagesFrom(w, r, i + 1)

\* the promise of sendToSandbox that run r awaits settles, and r goes on
\* (part_003:733-737, 807; 821, 872-874, 899-901, 937-939, 957-959)
Settle(v, r, success, text, alt) ==
  IF ~success
    THEN EndRun(v, r, TRUE, TRUE)
    ELSE IF v.runs[r].pc = "init"
      THEN IF v.runs[r].kind = "current"
             THEN ocrCurrentPageAfterInit(v, r)
             ELSE ocrAllPagesFrom(v, r, 0)
      ELSE ocrPageResult(v, r, v.runs[r].i, text, alt)

\* the runs that await the sandbox frame send ocr-init, one after the other
\* (part_003:717-723, 820-821)
RECURSIVE InitAfterReady(_, _)
InitAfterReady(v, r) ==
  IF r > Len(v.runs)
    THEN v
    ELSE InitAfterReady(IF v.runs[r].pc = "sandbox"
                          THEN sendToSandbox(v, r, "ocr-init", 0)
                          ELSE v,
                        r + 1)

\* a document of n pages has been loaded (part_003:384-429)
Loaded(n) ==
  /\ pages = [i \in 1..n |-> [rotation |-> 0, ocrData |-> NoData]]
  /\ currentPage = 0
  /\ viewMode = "continuous"
  /\ ocrInProgress = FALSE
  /\ ocrCancelled = FALSE
  /\ ocrSandbox = 0
  /\ ocrSandboxReady = FALSE
  /\ ocrMessageId = 0
  /\ ocrPendingMessages = <<>>
  /\ posted = {}
  /\ runs = <<>>
  /\ console = <<>>
  /\ consoleAlt = <<>>

\* ocrCurrentPage() / ocrAllPages() up to the first await
\* (part_003:866-872, 893-899, 832-836, 681-710, 816-821)
StartRun(kind) ==
  /\ Len(pages) # 0
  /\ ~ocrInProgress
  /\ Len(runs) < MaxRuns
  /\ LET r == Len(runs) + 1
         v == [Viewer EXCEPT
                 !.ocrInProgress = TRUE,
                 !.ocrCancelled = FALSE,
                 !.runs = Append(@, [kind |-> kind, pc |-> "sandbox",
                                     id |-> 0, i |-> 0, stored |-> 0,
                                     cancelAt |-> -1, alerts |-> 0])]
     IN Becomes(IF ocrSandbox # 0 /\ ocrSandboxReady
                  THEN sendToSandbox(v, r, "ocr-init", 0)
                  ELSE [v EXCEPT !.ocrSandbox = @ + 1,
                                 !.ocrMessageId = 0,
                                 !.ocrPendingMessages = <<>>])

\* the cancel button of the progress overlay (part_003:143-145, 858-861);
\* cancelAt notes how many results each unfinished run had stored by then
CancelOcr ==
  /\ ocrInProgress
  /\ Becomes([Viewer EXCEPT
               !.ocrCancelled = TRUE,
               !.ocrInProgress = FALSE,
               !.runs = [r \in DOMAIN runs |->
                           IF runs[r].pc # "done" /\ runs[r].cancelAt = -1
                             THEN [runs[r] EXCEPT !.cancelAt = runs[r].stored]
                             ELSE runs[r]]])

\* the sandbox frame reports ocr-sandbox-ready (part_003:713-723)
SandboxReady ==
  /\ ocrSandbox # 0
  /\ ~ocrSandboxReady
  /\ Becomes(InitAfterReady([Viewer EXCEPT !.ocrSandboxReady = TRUE], 1))

\* the 60000 ms timer of initOcrSandbox fires for run r before the frame
\* is ready (part_003:760-765)
SandboxInitTimeout(r) ==
  /\ r \in DOMAIN runs
  /\ runs[r].pc = "sandbox"
  /\ ~ocrSandboxReady
  /\ Becomes(EndRun(Viewer, r, TRUE, TRUE))

\* the sandbox answers message m; messageHandler logs event.data and
\* settles the promise that ocrPendingMessages holds for the id
\* (part_003:713-739); text is what was recognized, alt what would have been
\* recognized in a document with other text
SandboxReply(m, success, text, alt) ==
  /\ m \in posted
  /\ LET v == [Viewer EXCEPT
                 !.posted = @ \ {m},
                 !.console = IF success /\ m.type = "ocr-recognize"
                   THEN <<"messageHandler", text>> ELSE @,
                 !.consoleAlt = IF success /\ m.type = "ocr-recognize"
                   THEN <<"messageHandler", alt>> ELSE @]
     IN Becomes(IF m.id \in DOMAIN ocrPendingMessages
                  THEN Settle([v EXCEPT !.ocrPendingMessages =
                                          MapDelete(@, {m.id})],
                              ocrPendingMessages[m.id], success, text, alt)
                  ELSE v)

\* the 60000 ms timer of the message run r awaits fires while the id is in
\* the map (part_003:804-809); when it is not, the timer does nothing
SandboxTimeout(r) ==
  /\ r \in DOMAIN runs
  /\ runs[r].pc \in {"init", "page"}
  /\ runs[r].id \in DOMAIN ocrPendingMessages
  /\ Becomes(Settle([Viewer EXCEPT !.ocrPendingMessages =
                                     MapDelete(@, {runs[r].id})],
                    r, FALSE, <<>>, <<>>))

\* the OCR of one viewer with a loaded document
InitOcr ==
  /\ reqs = <<>>
  /\ cbLog = [c \in Callers |-> <<>>]
  /\ tabInbox = [t \in Tabs |-> <<>>]
  /\ ocrRequestId = 0
  /\ pendingOcrRequests = <<>>
  /\ creatingOffscreen = 0
  /\ reqId = [c \in Callers |-> 0]
  /\ setupPc = [c \in Callers |-> "none"]
  /\ dispatched = {}
  /\ sendRejected = {}
  /\ deleteCount = [i \in 1..MaxReq |-> 0]
  /\ dropped = {}
  /\ hostExists = FALSE
  /\ createDocs = <<>>
  /\ ctxCalls = <<>>
  /\ replies = <<>>
  /\ toHost = <<>>
  /\ toCoord = <<>>
  /\ libLoaded = TRUE
  /\ tesseractWorker = 0
  /\ workerReady = FALSE
  /\ selfWorker = 0
  /\ OriginalWorker = [c \in Callers |-> 0]
  /\ blobUrls = 0
  /\ engines = <<>>
  /\ hostPc = [c \in Callers |-> "none"]
  /\ taskEngine = [c \in Callers |-> 0]
  /\ taskReqId = [c \in Callers |-> 0]
  /\ taskType = [c \in Callers |-> ""]
  /\ emitted = 0
  /\ sinceTerminate = FALSE
  /\ engineResult = <<>>
  /\ responseData = <<>>
  /\ RulesNew
  /\ \E n \in 1..MaxPages : Loaded(n)

\* the sandbox answers with the text of the page, or with a failure
NextOcr ==
  \/ \E kind \in {"current", "all"} : StartRun(kind)
  \/ CancelOcr
  \/ SandboxReady
  \/ \E r \in DOMAIN runs : SandboxInitTimeout(r)
  \/ \E m \in posted, ok \in BOOLEAN : SandboxReply(m, ok, PageText, PageText)
  \/ \E r \in DOMAIN runs : SandboxTimeout(r)

SpecOcr == InitOcr /\ [][NextOcr]_vars

\* A 60000 ms timer of initOcrSandbox or of sendToSandbox that is due fires
\* (part_003:760-765, 804-809); the sandbox need not answer.
FairSpecOcr ==
  /\ SpecOcr
  /\ WF_vars(\E r \in 1..MaxRuns : SandboxInitTimeout(r) \/ SandboxTimeout(r))

\* mutant of Forget: the entry stays in the map
ForgetNothing(map, id) == map

\* this.ocrPendingMessages.delete(id)                 (part_003:806)
Forget(map, id) == MapDelete(map, {id})

\* the 60000 ms timer that sendToSandbox set for message id fires, at any
\* time after the message was sent (part_003:804-809)
SendTimer(id) ==
  /\ id \in 1..ocrMessageId
  /\ IF id \in DOMAIN ocrPendingMessages
       THEN Becomes(Settle([Viewer EXCEPT !.ocrPendingMessages = Forget(@, id)],
                           ocrPendingMessages[id], FALSE, <<>>, <<>>))
       ELSE UNCHANGED vars

\* the OCR of one viewer with the timers of all messages sent
NextOcrTimers ==
  \/ \E kind \in {"current", "all"} : StartRun(kind)
  \/ CancelOcr
  \/ SandboxReady
  \/ \E r \in DOMAIN runs : SandboxInitTimeout(r)
  \/ \E m \in posted, ok \in BOOLEAN : SandboxReply(m, ok, PageText, PageText)
  \/ \E id \in 1..(MaxRuns * (MaxPages + 1)) : SendTimer(id)

SpecOcrTimers == InitOcr /\ [][NextOcrTimers]_vars

\* clearOcr() (part_003:1061-1070)
ClearOcr ==
  Becomes([Viewer EXCEPT !.pages = [i \in DOMAIN pages |->
                                     [pages[i] EXCEPT !.ocrData = NoData]]])

\* the OCR of one viewer whose user also clears the results
NextOcrClear ==
  \/ \E kind \in {"current", "all"} : StartRun(kind)
  \/ CancelOcr
  \/ ClearOcr
  \/ SandboxReady
  \/ \E r \in DOMAIN runs : SandboxInitTimeout(r)
  \/ \E m \in posted, ok \in BOOLEAN : SandboxReply(m, ok, PageText, PageText)
  \/ \E r \in DOMAIN runs : SandboxTimeout(r)

SpecOcrClear == InitOcr /\ [][NextOcrClear]_vars

\* two documents that are alike but for the text recognized on their pages
NextOcrLog ==
  \/ \E kind \in {"current", "all"} : StartRun(kind)
  \/ CancelOcr
  \/ SandboxReady
  \/ \E r \in DOMAIN runs : SandboxInitTimeout(r)
  \/ \E m \in posted, ok \in BOOLEAN, text \in Texts, alt \in Texts :
       SandboxReply(m, ok, text, alt)
  \/ \E r \in DOMAIN runs : SandboxTimeout(r)

SpecOcrLog == InitOcr /\ [][NextOcrLog]_vars

\* ------------------------------------------- pages: navigation, rotation

\* mutant of Rotated: the angle is not reduced
RotatedUnreduced(rotation, degrees) == rotation + degrees + 360

\* (page.rotation + degrees + 360) % 360            (part_003:590)
Rotated(rotation, degrees) == (rotation + degrees + 360) % 360

\* rotate(degrees) (part_003:586-593); without a page at currentPage the
\* access to page.rotation throws and nothing changes
Rotate(degrees) ==
  /\ Len(pages) # 0
  /\ PageAt(Viewer) # 0
  /\ Becomes([Viewer EXCEPT !.pages[PageAt(Viewer)].rotation =
                              Rotated(@, degrees)])

\* goToPage(index) (part_003:461-477)
GoToPage(index) ==
  /\ index = NotANumber \/ ~(index < 0 \/ index >= Len(pages))
  /\ Becomes([Viewer EXCEPT !.currentPage = index])

\* prevPage() (part_003:449-453)
PrevPage ==
  /\ currentPage # NotANumber
  /\ currentPage > 0
  /\ GoToPage(currentPage - 1)

\* nextPage() (part_003:455-459)
NextPage ==
  /\ currentPage # NotANumber
  /\ currentPage < Len(pages) - 1
  /\ GoToPage(currentPage + 1)

\* handleScroll() (part_003:217-248): page i is the most visible one
HandleScroll(i) ==
  /\ viewMode = "continuous"
  /\ Len(pages) # 0
  /\ i \in 0..(Len(pages) - 1)
  /\ i # currentPage
  /\ Becomes([Viewer EXCEPT !.currentPage = i])

\* toggleViewMode() (part_003:595-598)
ToggleViewMode ==
  Becomes([Viewer EXCEPT !.viewMode = IF @ = "continuous" THEN "single"
                                                          ELSE "continuous"])

\* the page number typed into the page field gives index, or NaN; Home and
\* End give the first and the last index (part_003:67-70, 163-170)
NextRotate ==
  \/ \E degrees \in {90, -90} : Rotate(degrees)
  \/ \E index \in {NotANumber} \cup (-1..MaxPages) : GoToPage(index)
  \/ PrevPage
  \/ NextPage
  \/ \E i \in 0..(MaxPages - 1) : HandleScroll(i)
  \/ ToggleViewMode

SpecRotate == InitOcr /\ [][NextRotate]_vars

\* decodeTiff() for a file of n pages dropped on the viewer or chosen in the
\* file dialog (part_003:92, 262-266, 358-446): this.pages is built anew,
\* currentPage is not assigned.  A file without pages throws before
\* this.pages is cleared (part_003:378-380).
DecodeTiff(n) ==
  /\ n >= 1
  /\ Becomes([Viewer EXCEPT !.pages = [i \in 1..n |->
                                         [rotation |-> 0, ocrData |-> NoData]]])

NextNavigate ==
  \/ \E index \in {NotANumber} \cup (-1..MaxPages) : GoToPage(index)
  \/ PrevPage
  \/ NextPage
  \/ \E i \in 0..(MaxPages - 1) : HandleScroll(i)
  \/ ToggleViewMode
  \/ \E degrees \in {90, -90} : Rotate(degrees)
  \/ \E n \in 1..MaxPages : DecodeTiff(n)

SpecNavigate == InitOcr /\ [][NextNavigate]_vars

\* C34: whenever the viewer has at least one page, currentPage is a valid
\* index, 0 <= currentPage < pages.length, after any sequence of navigation,
\* scrolling and loading of another document.
C34_CurrentPageValid ==
  Len(pages) >= 1 => (currentPage >= 0 /\ currentPage < Len(pages))

\* ================================================================== claims

\* the callers whose request the listener has taken
Submitted == DOMAIN reqs

\* C1 (FairSpecCoord): every submitted request has its callback invoked
\* exactly once in the end, also when the offscreen document crashes after
\* the request was sent to it.
C1_CallbackEventually ==
  \A c \in Callers : (c \in Submitted) ~> (Len(cbLog[c]) = 1)

\* C2 (SpecCoord): whatever ocr-responses arrive, duplicates and late ones
\* included, and whatever setup fails, the callback of a request is invoked
\* at most once and its table entry is deleted at most once.
C2_AtMostOnce ==
  /\ \A c \in Callers : Len(cbLog[c]) <= 1
  /\ \A i \in DOMAIN deleteCount : deleteCount[i] <= 1

\* a response was delivered again after its request had been resolved
C2_Witness ==
  \E c \in Submitted :
    /\ reqId[c] \in dropped
    /\ Len(cbLog[c]) = 1
    /\ deleteCount[reqId[c]] = 1

\* C3 (SpecCoord): a callback only ever receives the response that carried
\* the requestId given to its own request, in whatever order the responses
\* of concurrent requests arrive.
C3_OwnResponseOnly ==
  \A c \in Submitted : \A i \in 1..Len(cbLog[c]) :
    /\ cbLog[c][i].requestId = reqId[c]
    /\ cbLog[c][i].src \in {0, c}

\* two requests of different tabs were with the host at once and the later
\* one was answered first
C3_Witness ==
  \E c, d \in Submitted :
    /\ c < d
    /\ reqs[c].tab # reqs[d].tab
    /\ c \in dispatched
    /\ reqId[c] \in DOMAIN pendingOcrRequests
    /\ cbLog[c] = <<>>
    /\ Len(cbLog[d]) = 1
    /\ cbLog[d][1].src = d

\* C4 (SpecProgress): an ocr-progress event of a Recognize request reaches
\* only the viewer tab that issued this request.
C4_ProgressToOriginOnly ==
  \A t \in Tabs : \A i \in 1..Len(tabInbox[t]) :
    LET c == tabInbox[t][i].src
    IN reqs[c].type = "ocr-recognize" => reqs[c].tab = t

\* C5 (SpecHost): at most one Tesseract.createWorker call is outstanding,
\* and every engine that was made and lives is the one tesseractWorker
\* names: none is left unreferenced.
C5_SingleEngine ==
  /\ Cardinality({c \in Callers : hostPc[c] = "create"}) <= 1
  /\ \A e \in DOMAIN engines :
       (engines[e].alive /\ engines[e].made) => tesseractWorker = e

\* C6 (SpecHost): an ocr-init handled while the engine is there and ready
\* makes no blob URL, leaves self.Worker, the engine reference, the engines
\* and the ready flag as they are, and sends a success response with the
\* request's id.
C6_InitWhenPresentNoOp ==
  [][(HostReceive /\ Head(toHost).type = "ocr-init"
        /\ tesseractWorker # 0 /\ workerReady)
       => /\ blobUrls' = blobUrls
          /\ selfWorker' = selfWorker
          /\ tesseractWorker' = tesseractWorker
          /\ workerReady' = workerReady
          /\ engines' = engines
          /\ toCoord' = Append(toCoord,
               [type |-> "ocr-response",
                requestId |-> Head(toHost).requestId, success |-> TRUE,
                error |-> "", src |-> Head(toHost).src, n |-> 0])]_vars

\* an ocr-init was answered with success without ever starting an engine
C6_Witness ==
  \E c \in Callers :
    /\ taskType[c] = "ocr-init"
    /\ hostPc[c] = "done"
    /\ taskEngine[c] = 0
    /\ tesseractWorker # 0 /\ workerReady
    /\ \E i \in DOMAIN toCoord :
         /\ toCoord[i].type = "ocr-response"
         /\ toCoord[i].src = c
         /\ toCoord[i].success

\* C7 (SpecCoord): at most one createDocument call is outstanding at any
\* time, and none is made while an offscreen document exists or another
\* creation has not finished; a submit that finds a creation in flight
\* awaits it.
C7_SingleCreation ==
  /\ Cardinality({p \in DOMAIN createDocs : ~createDocs[p].replied}) <= 1
  /\ \A p \in DOMAIN createDocs :
       /\ ~createDocs[p].hostAtCall
       /\ createDocs[p].othersAtCall = 0
  /\ \A c \in Callers :
       setupPc[c] = "awaitCreating" =>
         /\ creatingOffscreen # 0
         /\ \E i \in DOMAIN createDocs[creatingOffscreen].waiters :
              createDocs[creatingOffscreen].waiters[i] = c

\* a second submit awaits the creation the first one started
C7_Witness ==
  \E p \in DOMAIN createDocs :
    /\ createDocs[p].state = "pending"
    /\ Len(createDocs[p].waiters) >= 2

\* C8 (SpecCoord): every request whose setup failed because the creation of
\* the offscreen document failed has had its callback invoked once, with a
\* failure, has no table entry any more and was never sent to the host.
C8_CreationFailureAnswered ==
  \A c \in Callers :
    setupPc[c] = "failed" =>
      /\ Len(cbLog[c]) = 1
      /\ ~cbLog[c][1].success
      /\ cbLog[c][1].src = 0
      /\ reqId[c] \notin DOMAIN pendingOcrRequests
      /\ c \notin dispatched

\* two requests awaited the same creation, and it failed
C8_Witness ==
  \E p \in DOMAIN createDocs :
    /\ createDocs[p].state = "rejected"
    /\ Len(createDocs[p].waiters) >= 2
    /\ \A i \in DOMAIN createDocs[p].waiters :
         setupPc[createDocs[p].waiters[i]] = "failed"

\* C9 (SpecHost): the ready flag is never true while the engine reference
\* is null.
C9_ReadyImpliesEngine == workerReady => tesseractWorker # 0

\* a Terminate was handled while an initialization was in flight, and the
\* initialization has finished since
C9_Witness ==
  /\ workerReady
  /\ \E c, d \in Callers :
       /\ c < d
       /\ taskType[d] = "ocr-terminate" /\ hostPc[d] = "done"
       /\ taskEngine[c] = tesseractWorker
       /\ engines[tesseractWorker].by = c

\* C10 (SpecHost): once a Terminate has been answered, the engine reference
\* is null and the ready flag false until a request received later starts a
\* new initialization.
C10_AbsentAfterTerminate ==
  sinceTerminate => (tesseractWorker = 0 /\ ~workerReady)

\* the engine call of the recognition of task c resolved or rejected before
\* the timer fired: the response of c carries the engine's outcome
EngineSettled(c) ==
  \/ \E i \in DOMAIN toCoord :
       /\ toCoord[i].type = "ocr-response"
       /\ toCoord[i].src = c
       /\ toCoord[i].error # "timeout"
  \/ \E i \in DOMAIN cbLog[c] : cbLog[c][i].error # "timeout"

\* the caller of c was given the timeout failure carrying its requestId, and
\* the table holds no entry of c
TimeoutDelivered(c) ==
  /\ Len(cbLog[c]) = 1
  /\ ~cbLog[c][1].success
  /\ cbLog[c][1].error = "timeout"
  /\ cbLog[c][1].requestId = reqId[c]
  /\ cbLog[c][1].src = c
  /\ reqId[c] \notin DOMAIN pendingOcrRequests

\* C11 (SpecPipe): a Recognize request whose engine call was started and
\* never settles gets, in the end, the timeout failure of the Worker Host,
\* and once the Coordinator has handled it the table has no entry of the
\* request.
C11_TimeoutAnswered ==
  /\ \A c \in Callers :
       (hostPc[c] = "recog") ~> (EngineSettled(c) \/ TimeoutDelivered(c))
  /\ [][(CoordMessage(FALSE) /\ Head(toCoord).type = "ocr-response"
           /\ Head(toCoord).error = "timeout")
          => Head(toCoord).requestId \notin DOMAIN pendingOcrRequests']_vars

\* the engine was terminated during a recognition, whose caller got the
\* timeout failure
C11_Witness ==
  \E c \in Callers :
    /\ TimeoutDelivered(c)
    /\ reqs[c].type = "ocr-recognize"
    /\ ~engines[taskEngine[c]].alive

\* C12 (SpecOcr): once cancel was requested while a batch run had stored k
\* results, the run stores no further result, whatever is done afterwards.
C12_NoStoreAfterCancel ==
  \A r \in DOMAIN runs :
    (runs[r].kind = "all" /\ runs[r].cancelAt # -1)
      => runs[r].stored = runs[r].cancelAt

\* C13 (SpecOcr): the step in which the recognition of a page fails in a
\* batch run (a failure answer, or the timer of the request) leaves the
\* results of all pages as they are, ends the run, shows one failure message
\* and posts no further request.
C13_FailureKeepsResults ==
  [][\A r \in DOMAIN runs :
       (/\ runs[r].kind = "all"
        /\ runs[r].pc = "page"
        /\ \/ SandboxTimeout(r)
           \/ \E m \in posted :
                /\ m.id = runs[r].id
                /\ m.id \in DOMAIN ocrPendingMessages
                /\ SandboxReply(m, FALSE, PageText, PageText))
       => /\ pages' = pages
          /\ runs'[r].pc = "done"
          /\ runs'[r].alerts = runs[r].alerts + 1
          /\ runs'[r].stored = runs[r].stored
          /\ posted' \subseteq posted
          /\ \A q \in DOMAIN runs : q # r => runs'[q] = runs[q]]_vars

\* a batch run stored the result of a page, failed on a later page and
\* showed one message; the stored result is still attached
C13_Witness ==
  \E r \in DOMAIN runs :
    /\ runs[r].kind = "all"
    /\ runs[r].pc = "done"
    /\ runs[r].stored >= 1
    /\ runs[r].alerts = 1
    /\ \E i \in DOMAIN pages : pages[i].ocrData.by = r
    /\ \E i \in DOMAIN pages : pages[i].ocrData = NoData

\* C16 (SpecOcrLog): what the viewer writes to the console is the same for
\* two documents that differ only in the text recognized on their pages.
C16_ConsoleSameForAnyText == console = consoleAlt

\* C14 (SpecHost): every ocr-response the Worker Host sends carries the
\* requestId of the request whose listener call sent it, in whatever order
\* concurrent requests finish; what the logger sends is an ocr-progress
\* message, never an ocr-response.
C14_ResponseCarriesRequestId ==
  \A i \in DOMAIN toCoord :
    LET m == toCoord[i]
    IN /\ m.type \in {"ocr-response", "ocr-progress"}
       /\ m.type = "ocr-response" <=> m.n = 0
       /\ m.type = "ocr-response" =>
            /\ hostPc[m.src] = "done"
            /\ m.requestId = taskReqId[m.src]
            /\ m.requestId = m.src

\* two requests were worked on at once and the later one was answered
\* first; a progress message was sent as well
C14_Witness ==
  /\ \E i, j \in DOMAIN toCoord :
       /\ i < j
       /\ toCoord[i].type = "ocr-response"
       /\ toCoord[j].type = "ocr-response"
       /\ toCoord[i].src > toCoord[j].src
       /\ taskType[toCoord[j].src] # "ocr-terminate"
       /\ taskType[toCoord[i].src] # "ocr-terminate"
  /\ \E i \in DOMAIN toCoord : toCoord[i].type = "ocr-progress"

\* the ocr-responses the Worker Host has sent for task c
ResponsesOf(c) ==
  {i \in DOMAIN toCoord :
     toCoord[i].type = "ocr-response" /\ toCoord[i].src = c}

\* a step in which the handling of the Init or Recognize request of task c
\* fails: the library is missing, a fetch fails, createWorker fails, the
\* engine reports an error, or the timer of recognize fires
HostFailure(c) ==
  \/ /\ HostReceive
     /\ Head(toHost).src = c
     /\ Head(toHost).type \in {"ocr-init", "ocr-recognize"}
     /\ ~AlreadyInitialized
     /\ ~libLoaded
  \/ \E w \in BOOLEAN, k \in BOOLEAN : ~(w /\ k) /\ FetchDone(c, w, k)
  \/ CreateWorkerDone(c, FALSE)
  \/ RecognizeDone(c, "error")
  \/ RecognizeDone(c, "timeout")

\* C15 (SpecHost): every step in which the handling of an Init or Recognize
\* request fails sends one ocr-response with success false, an error message
\* and the request's own requestId, and ends the handling; a request whose
\* handling has ended has exactly one response, any other request none.
C15_FailureAnsweredOnce ==
  /\ [][\A c \in Callers :
          HostFailure(c) =>
            /\ Len(toCoord') = Len(toCoord) + 1
            /\ LET m == toCoord'[Len(toCoord')]
               IN /\ m.type = "ocr-response"
                  /\ ~m.success
                  /\ m.error # ""
                  /\ m.src = c
                  /\ m.requestId = taskReqId'[c]
            /\ hostPc'[c] = "done"]_vars
  /\ [](\A c \in Callers :
          Cardinality(ResponsesOf(c)) = IF hostPc[c] = "done" THEN 1 ELSE 0)

\* two requests were worked on at once; one failed at createWorker and the
\* other one when its recognition timed out
C15_Witness ==
  \E i, j \in DOMAIN toCoord :
    /\ toCoord[i].type = "ocr-response" /\ toCoord[i].error = "create"
    /\ toCoord[j].type = "ocr-response" /\ toCoord[j].error = "timeout"
    /\ toCoord[i].src > toCoord[j].src

\* the rotation of the page at index i (1-based) of the viewer
RotationOf(i) == pages[i].rotation

\* C17 (SpecRotate): rotate(+90) and rotate(-90) change the rotation of the
\* current page only, and every page's rotation is one of 0, 90, 180, 270.
C17_RotateCurrentPageOnly ==
  /\ [](\A i \in DOMAIN pages : RotationOf(i) \in {0, 90, 180, 270})
  /\ [][\A degrees \in {90, -90} :
          Rotate(degrees) =>
            /\ \A i \in DOMAIN pages :
                 i # currentPage + 1 => pages'[i] = pages[i]
            /\ pages'[currentPage + 1].rotation
                 = (RotationOf(currentPage + 1) + degrees + 360) % 360
            /\ pages'[currentPage + 1].ocrData
                 = pages[currentPage + 1].ocrData
            /\ currentPage' = currentPage]_vars
  /\ [][(\A degrees \in {90, -90} : ~Rotate(degrees))
          => pages' = pages]_vars

\* one page was turned back from 0 to 270 while the other stands at 90
C17_Witness ==
  /\ Len(pages) = 2
  /\ RotationOf(1) = 270
  /\ RotationOf(2) = 90

\* an initWorker call is past its guard and has not returned or thrown yet
InitInFlight == \E c \in Callers : hostPc[c] \in {"fetch", "create"}

\* C18 (SpecHost): whenever no initWorker call is in flight, self.Worker is
\* the original constructor, whether the calls before succeeded or failed
\* and whether or not they overlapped.
C18_WorkerRestored == ~InitInFlight => selfWorker = 0

\* C19 (SpecHost): whenever no initWorker call is in flight, no blob URL
\* made by createInlinedWorkerBlob is left unreleased.
C19_BlobUrlReleased == ~InitInFlight => blobUrls = 0

\* C20 (FairSpecCoord): when the send of a request to the offscreen
\* document is rejected, the Coordinator removes the entry of the request
\* and gives its caller a failure response.
C20_SendFailureAnswered ==
  \A c \in Callers :
    (c \in sendRejected) ~>
      /\ reqId[c] \notin DOMAIN pendingOcrRequests
      /\ Len(cbLog[c]) = 1
      /\ ~cbLog[c][1].success

\* C21 (SpecCoord): the step in which the Coordinator takes an ocr-response
\* whose requestId has no entry in the table calls no callback, sends no
\* message to the host or to a tab, and leaves the table and the id counter
\* as they are; the listener returns.
C21_UnknownResponseDropped ==
  [][\A again \in BOOLEAN :
       (/\ CoordMessage(again)
        /\ Head(toCoord).type = "ocr-response"
        /\ Head(toCoord).requestId \notin DOMAIN pendingOcrRequests)
       => /\ cbLog' = cbLog
          /\ tabInbox' = tabInbox
          /\ toHost' = toHost
          /\ pendingOcrRequests' = pendingOcrRequests
          /\ deleteCount' = deleteCount
          /\ ocrRequestId' = ocrRequestId
          /\ Head(toCoord).requestId \in dropped']_vars

\* a response was dropped while the request of another caller still had its
\* entry and its callback had not been called
C21_Witness ==
  /\ dropped # {}
  /\ \E c \in Submitted :
       /\ reqId[c] \in DOMAIN pendingOcrRequests
       /\ reqId[c] \notin dropped
       /\ cbLog[c] = <<>>
       /\ c \in dispatched

\* C22 (SpecRestart): every request the Coordinator takes gets a requestId
\* greater than the requestId of every request taken before it, requests
\* taken before a restart of the service worker included.
C22_IdsIncrease ==
  \A c, d \in Submitted : c < d => reqId[c] < reqId[d]

C24_FetchFailureFailsFast ==
  [][\A c \in Callers, w \in BOOLEAN, k \in BOOLEAN :
       (FetchDone(c, w, k) /\ (~w \/ ~k))
       => /\ blobUrls' = blobUrls
          /\ selfWorker' = selfWorker
          /\ OriginalWorker' = OriginalWorker
          /\ engines' = engines
          /\ tesseractWorker' = tesseractWorker
          /\ workerReady' = workerReady
          /\ hostPc'[c] = "done"
          /\ toCoord' = Append(toCoord,
               [type |-> "ocr-response", requestId |-> taskReqId[c],
                success |-> FALSE, error |-> "fetch", src |-> c,
                n |-> 0])]_vars

\* an ocr-init was answered with the fetch failure; no blob URL and no engine
\* has been made and self.Worker is the original
C24_Witness ==
  /\ blobUrls = 0
  /\ engines = <<>>
  /\ selfWorker = 0
  /\ \E i \in DOMAIN toCoord :
       /\ toCoord[i].type = "ocr-response"
       /\ toCoord[i].error = "fetch"
       /\ ~toCoord[i].success
       /\ taskType[toCoord[i].src] = "ocr-init"
       /\ toCoord[i].requestId = taskReqId[toCoord[i].src]

Answered(c) == ResponsesOf(c) # {} \/ Len(cbLog[c]) >= 1

\* C26 (SpecPipe): the step in which a recognition fails (the engine reports
\* an error, or the timer fires) leaves the engine reference, the ready flag
\* and the engines as they are; an ocr-recognize received while the engine is
\* there and ready is passed to that engine whatever failed before, and
\* every recognition passed to the engine is answered.
C26_FailedRecognizeKeepsEngine ==
  /\ [][\A c \in Callers, o \in {"error", "timeout"} :
          RecognizeDone(c, o)
          => /\ tesseractWorker' = tesseractWorker
             /\ workerReady' = workerReady
             /\ engines' = engines
             /\ Answered(c)']_vars
  /\ [][(/\ HostReceive
         /\ Head(toHost).type = "ocr-recognize"
         /\ tesseractWorker # 0 /\ workerReady)
        => /\ hostPc'[Head(toHost).src] = "recog"
           /\ taskEngine'[Head(toHost).src] = tesseractWorker
           /\ tesseractWorker' = tesseractWorker
           /\ workerReady' = workerReady]_vars
  /\ \A c \in Callers : (hostPc[c] = "recog") ~> Answered(c)

\* a recognition timed out and its caller was told; another recognition on
\* the same engine, which is still the one the Worker Host refers to, was
\* answered with success
C26_Witness ==
  \E c, d \in Callers :
    /\ c < d
    /\ taskType[c] = "ocr-recognize" /\ taskType[d] = "ocr-recognize"
    /\ Len(cbLog[c]) = 1 /\ cbLog[c][1].error = "timeout"
    /\ Len(cbLog[d]) = 1 /\ cbLog[d][1].success /\ cbLog[d][1].src = d
    /\ taskEngine[d] = taskEngine[c]
    /\ tesseractWorker = taskEngine[c]
    /\ workerReady

\* C27 (SpecHost): at most one recognize call is outstanding on an engine at
\* any time.
C27_OneRecognizeAtATime ==
  \A c, d \in Callers :
    (/\ hostPc[c] = "recog"
     /\ hostPc[d] = "recog"
     /\ taskEngine[c] = taskEngine[d]) => c = d

\* the fields of the four coordinates
Coordinates == {"x0", "y0", "x1", "y1"}

\* the data of the response sent last holds text, confidence and words and
\* nothing else, with the values the engine gave, and every word holds
\* text, confidence and bbox and nothing else
ReducedShape ==
  \A k \in DOMAIN responseData :
    LET data == responseData[k]
        native == engineResult[k].data
    IN /\ DOMAIN data = {"text", "confidence", "words"}
       /\ data.text = native.text
       /\ data.confidence = native.confidence
       /\ Len(data.words) = IF "words" \in DOMAIN native
                               THEN Len(native.words) ELSE 0
       /\ \A i \in DOMAIN data.words :
            /\ DOMAIN data.words[i] = {"text", "confidence", "bbox"}
            /\ data.words[i].text = native.words[i].text
            /\ data.words[i].confidence = native.words[i].confidence

C30_AttachedResultKept ==
  [][\A i \in DOMAIN pages :
       pages[i].ocrData # NoData
         => \/ pages'[i].ocrData = pages[i].ocrData
            \/ ClearOcr /\ pages'[i].ocrData = NoData]_vars

\* C31 (SpecSender): a message of type ocr-response or ocr-progress that
\* another context than the offscreen document sent calls no callback,
\* removes no entry of the table and is passed on to no tab.
C31_OnlyHostMessagesCount ==
  [][\A url \in OtherSenders, id \in 0..MaxReq,
        type \in {"ocr-response", "ocr-progress"} :
       ForeignMessage(url, type, id)
       => /\ cbLog' = cbLog
          /\ pendingOcrRequests' = pendingOcrRequests
          /\ deleteCount' = deleteCount
          /\ replies' = replies
          /\ tabInbox' = tabInbox]_vars

\* ------------------------------------------------------ redirect rules
\* pendingRules.has(url)
NeverPending(url) == FALSE

AlreadyPending(url) == url \in DOMAIN pendingRules

\* createRedirectRule(url) up to its await (part_001:189-214), called by the
\* tabs.onCreated and webNavigation.onBeforeNavigate listeners.
CreateRedirectRule(url) ==
  /\ IF AlreadyPending(url)
       THEN /\ skipped' = skipped \cup {url}
            /\ UNCHANGED <<ruleIdCounter, pendingRules, ruleTask>>
       ELSE /\ Len(ruleTask) < MaxRules
            /\ ruleIdCounter' = ruleIdCounter + 1
            /\ pendingRules' = MapSet(pendingRules, url, ruleIdCounter)
            /\ ruleTask' = Append(ruleTask, [url |-> url, id |-> ruleIdCounter,
                                             pc |-> "adding", removing |-> 0])
            /\ UNCHANGED skipped
  /\ UNCHANGED dynamicRules
  /\ UNCHANGED <<pipeVars, tiffVars, dataVars>>

\* The browser refuses a rule whose id a dynamic rule already has.
UniqueId(id) == \A r \in dynamicRules : r.id # id

\* updateDynamicRules({addRules: [rule]}) settles and createRedirectRule
\* continues (part_001:216-224): setTimeout on success, delete on failure.
AddRuleDone(k, ok) ==
  /\ k \in DOMAIN ruleTask
  /\ ruleTask[k].pc = "adding"
  /\ ok => UniqueId(ruleTask[k].id)
  /\ IF ok
       THEN /\ dynamicRules' = dynamicRules \cup
                 {[id |-> ruleTask[k].id, url |-> ruleTask[k].url]}
            /\ ruleTask' = [ruleTask EXCEPT ![k].pc = "timer"]
            /\ UNCHANGED pendingRules
       ELSE /\ pendingRules' = MapDelete(pendingRules, {ruleTask[k].url})
            /\ ruleTask' = [ruleTask EXCEPT ![k].pc = "addFailed"]
            /\ UNCHANGED dynamicRules
  /\ UNCHANGED <<ruleIdCounter, skipped>>
  /\ UNCHANGED <<pipeVars, tiffVars, dataVars>>

\* The 30 s timer of task k fires: removeRedirectRule(url) up to its await
\* (part_001:230-237).
TimerFires(k) ==
  /\ k \in DOMAIN ruleTask
  /\ ruleTask[k].pc = "timer"
  /\ IF ruleTask[k].url \in DOMAIN pendingRules
       THEN ruleTask' = [ruleTask EXCEPT
                           ![k].pc = "removing",
                           ![k].removing = pendingRules[ruleTask[k].url]]
       ELSE ruleTask' = [ruleTask EXCEPT ![k].pc = "noEntry"]
  /\ UNCHANGED <<ruleIdCounter, pendingRules, dynamicRules, skipped>>
  /\ UNCHANGED <<pipeVars, tiffVars, dataVars>>

\* updateDynamicRules({removeRuleIds: [ruleId]}) settles and
\* removeRedirectRule continues (part_001:238-243): the entry is deleted on
\* success, a failure is only logged.
RemoveRuleDone(k, ok) ==
  /\ k \in DOMAIN ruleTask
  /\ ruleTask[k].pc = "removing"
  /\ IF ok
       THEN /\ dynamicRules' = {r \in dynamicRules : r.id # ruleTask[k].removing}
            /\ pendingRules' = MapDelete(pendingRules, {ruleTask[k].url})
            /\ ruleTask' = [ruleTask EXCEPT ![k].pc = "removed"]
       ELSE /\ ruleTask' = [ruleTask EXCEPT ![k].pc = "removeFailed"]
            /\ UNCHANGED <<dynamicRules, pendingRules>>
  /\ UNCHANGED <<ruleIdCounter, skipped>>
  /\ UNCHANGED <<pipeVars, tiffVars, dataVars>>

\* The browser stops the idle service worker and starts it again for the next
\* event: the module-level state of part_001:180-183 is initialised anew and
\* the timers are gone, the dynamic rules stay.  A worker with an extension
\* API call in flight is not idle.
WorkerStopped ==
  /\ \E k \in DOMAIN ruleTask : ruleTask[k].pc = "timer"
  /\ \A k \in DOMAIN ruleTask : ruleTask[k].pc \notin {"adding", "removing"}
  /\ ruleIdCounter' = 1
  /\ pendingRules' = <<>>
  /\ ruleTask' = [k \in DOMAIN ruleTask |->
                    IF ruleTask[k].pc \in {"timer", "removeFailed"}
                      THEN [ruleTask[k] EXCEPT !.pc = "lost"]
                      ELSE ruleTask[k]]
  /\ UNCHANGED <<dynamicRules, skipped>>
  /\ UNCHANGED <<pipeVars, tiffVars, dataVars>>

NextRules ==
  \/ \E url \in Urls : CreateRedirectRule(url)
  \/ \E k \in 1..MaxRules, ok \in BOOLEAN : AddRuleDone(k, ok)
  \/ \E k \in 1..MaxRules : TimerFires(k)
  \/ \E k \in 1..MaxRules, ok \in BOOLEAN : RemoveRuleDone(k, ok)
  \/ WorkerStopped

SpecRules == Init /\ [][NextRules]_vars

\* The browser settles every updateDynamicRules call and fires every timer
\* of a running service worker.
FairRules ==
  /\ WF_vars(\E k \in 1..MaxRules, ok \in BOOLEAN : AddRuleDone(k, ok))
  /\ WF_vars(\E k \in 1..MaxRules : TimerFires(k))
  /\ WF_vars(\E k \in 1..MaxRules, ok \in BOOLEAN : RemoveRuleDone(k, ok))

FairSpecRules == Init /\ [][NextRules]_vars /\ FairRules

\* The rule of task k is no dynamic rule any more and pendingRules does not
\* hold it for its URL.
RuleGone(k) ==
  /\ [id |-> ruleTask[k].id, url |-> ruleTask[k].url] \notin dynamicRules
  /\ ruleTask[k].url \in DOMAIN pendingRules
       => pendingRules[ruleTask[k].url] # ruleTask[k].id

\* C32: every dynamic redirect rule createRedirectRule created is eventually
\* removed again and its URL's entry is then deleted from pendingRules.
C32_RuleEventuallyRemoved ==
  \A k \in 1..MaxRules :
    (k \in DOMAIN ruleTask /\ ruleTask[k].pc = "timer")
      ~> (k \in DOMAIN ruleTask /\ RuleGone(k))

\* The live rules the running service worker created itself.
OwnRules ==
  {r \in dynamicRules :
     \E k \in DOMAIN ruleTask :
       /\ ruleTask[k].pc \in {"timer", "removing", "removeFailed"}
       /\ ruleTask[k].id = r.id
       /\ ruleTask[k].url = r.url}

\* No URL has two rules in the set and no two rules of it share an id.
OnePerUrl(rules) ==
  \A r1, r2 \in rules : (r1.url = r2.url \/ r1.id = r2.id) => r1 = r2

\* A createRedirectRule call for a URL already in pendingRules adds no rule.
PendingAddsNoRule ==
  \A url \in Urls :
    (url \in DOMAIN pendingRules /\ CreateRedirectRule(url))
      => /\ dynamicRules' = dynamicRules
         /\ pendingRules' = pendingRules
         /\ ruleTask' = ruleTask

ActiveRuns == {r \in DOMAIN runs : runs[r].pc # "done"}

\* C35 (SpecOcr): in one viewer at most one OCR run is active at any time; a
\* new run cannot start while an earlier run has a request outstanding or
\* pages left to process.
C35_OneActiveRun == Cardinality(ActiveRuns) <= 1

\* C36 (FairSpecOcr): every OCR run started in the viewer eventually ends,
\* and the step in which it ends leaves ocrInProgress false, whether the
\* sandbox answers, answers with an error or never answers.
C36_RunEndsNotInProgress ==
  /\ \A r \in 1..MaxRuns :
       (r \in DOMAIN runs) ~> (r \in DOMAIN runs /\ runs[r].pc = "done")
  /\ [][\A r \in DOMAIN runs :
          (runs[r].pc # "done" /\ runs'[r].pc = "done") => ~ocrInProgress']_vars

\* a cancelled run and the run started after it have both ended, the second
\* one by a timer or an error answer, and no OCR is in progress
C36_Witness ==
  /\ Len(runs) = 2
  /\ runs[1].pc = "done" /\ runs[1].cancelAt # -1
  /\ runs[2].pc = "done" /\ runs[2].alerts = 1
  /\ ~ocrInProgress

\* the ids of the promises of sendToSandbox that a run awaits
AwaitedIds == {runs[r].id : r \in {q \in DOMAIN runs : runs[q].pc \in {"init", "page"}}}

\* C37 (SpecOcrTimers): each promise of sendToSandbox is settled once, by the
\* response with its id or by its timer: the ids in ocrPendingMessages are
\* those of the promises still awaited, each held for the run that awaits
\* it; a run goes on only in a step, of a response or of a timer, that finds
\* the id in the map and takes it out; a response whose id is not in the map
\* changes nothing of the runs; and no id is given twice.
C37_SettledOnce ==
  /\ [](/\ DOMAIN ocrPendingMessages = AwaitedIds
        /\ \A id \in DOMAIN ocrPendingMessages :
             /\ id <= ocrMessageId
             /\ runs[ocrPendingMessages[id]].id = id)
  /\ [][/\ ocrMessageId' >= ocrMessageId
        /\ \A r \in DOMAIN runs :
             (runs[r].pc \in {"init", "page"} /\ runs'[r] # runs[r]
                /\ runs'[r].cancelAt = runs[r].cancelAt)
               => /\ runs[r].id \in DOMAIN ocrPendingMessages
                  /\ runs[r].id \notin DOMAIN ocrPendingMessages'
        /\ \A m \in posted :
             (m.id \notin DOMAIN ocrPendingMessages /\ m \notin posted')
               => /\ runs' = runs
                  /\ pages' = pages
                  /\ ocrPendingMessages' = ocrPendingMessages
                  /\ ocrInProgress' = ocrInProgress]_vars

\* the timer of a request has settled its promise, the run has ended with
\* its failure message, and the answer of the sandbox is still to come
C37_Witness ==
  /\ \E m \in posted : m.id \notin DOMAIN ocrPendingMessages
  /\ \E r \in DOMAIN runs : runs[r].pc = "done" /\ runs[r].alerts = 1

\* C38 (SpecCoord): creatingOffscreen is set only while a createDocument
\* call is outstanding; after a creation attempt has finished, with success
\* or with an error, the handle is null again.
C38_HandleOnlyWhileCreating ==
  creatingOffscreen # 0 => createDocs[creatingOffscreen].state = "pending"

====
